---- MODULE Spec2Model ----
(***************************************************************************)
(* A model of the VT core of contour: the Sequencer (the listener of the   *)
(* VT parser's events), its DCS sub-parsers and the sixel image builder.   *)
(* Characters are their byte values, as in the C++ code (char); the        *)
(* function Ascii gives the value of the characters the model names.       *)
(***************************************************************************)
EXTENDS Integers, Sequences, FiniteSets, TLC

VARIABLES
    sequence_,                  \* Sequencer::sequence_: the sequence under construction
    utf8DecoderState,           \* state().utf8DecoderState
    instructionCounter,         \* state().instructionCounter
    precedingGraphicCharacter,  \* state().precedingGraphicCharacter
    hookedParser_,              \* Sequencer::hookedParser_ (kind "None": the null pointer)
    sixelImageBuilder_,         \* Sequencer::sixelImageBuilder_
    imageColorPalette_,         \* Sequencer::imageColorPalette_, the shared sixel palette
    usePrivateColorRegisters,   \* state().usePrivateColorRegisters
    colorPalette,               \* state().colorPalette.palette, the entries that were set
    screenState,                \* Screen::_state: page size, margin, cursor and modes
    out,                        \* the calls made on Screen and Terminal, in order
    pty,                        \* the bytes of the current string still to arrive
    lastEvent,                  \* history: the parser event handled last
    sent,                       \* history: the parameters as sent since the last clear
    printed,                    \* history: the bytes printed since the last execute or clear
    dcs,                        \* history: the hook events and the bytes put since
    steps,                      \* history: the number of events handled
    textureAtlas                \* a TextureAtlas of the renderer (kind "None": none made)

vars == <<sequence_, utf8DecoderState, instructionCounter, precedingGraphicCharacter,
          hookedParser_, sixelImageBuilder_, imageColorPalette_, usePrivateColorRegisters,
          colorPalette, screenState, out, pty, lastEvent, sent, printed, dcs, steps,
          textureAtlas>>

\* The state of the DCS sub-parsers, and of the printed text.
dcsVars == <<hookedParser_, sixelImageBuilder_, imageColorPalette_,
             usePrivateColorRegisters, dcs>>
textVars == <<utf8DecoderState, precedingGraphicCharacter, printed>>

----------------------------------------------------------------------------
(* Bounds of the model. *)

\* Sequence::MaxParameters (16 in the program), scaled down.
MaxParameters == 3

\* Sequence::MaxOscLength, scaled down.
MaxOscLength == 20

\* The cap the intermediates are claimed to have; the code names none.
IntermediateCap == 3

\* The terminal's configuration: state().maxImageSize and
\* state().maxImageRegisterCount.
MaxImageWidth == 4
MaxImageHeight == 8
MaxImageRegisterCount == 4

\* The number of events of one run of each specification.
MaxPrintEvents == 5
MaxParamEvents == 7
MaxDcsEvents == 6

\* The number of sixel images of one run.
MaxImages == 1

\* The number of operating system commands of one run.
MaxOscStrings == 2

\* The number of sequences after which no further string arrives.
MaxSequences == 2

\* The page of the screen: its lines and its columns.
MaxPageLines == 4
MaxPageColumns == 3

----------------------------------------------------------------------------
(* Characters and small helpers. *)

Ascii == [c \in {"0", "1", "2", "3", "4", "5", "6", "7", "8", "9", ";", ":", "?",
                 "#", "!", "\"", "$", "-", "~", "m", "r", "g", "b", "/", "f", "q",
                 " ", "|", "*", "s", "t", "p", "x", "L", "H", "A", "+", "@", "a", "F",
                 "[", "]", "h", "l", "y", "D", "M", "Q"} |->
            CASE c = "0" -> 48 [] c = "1" -> 49 [] c = "2" -> 50 [] c = "3" -> 51
              [] c = "4" -> 52 [] c = "5" -> 53 [] c = "6" -> 54 [] c = "7" -> 55
              [] c = "8" -> 56 [] c = "9" -> 57 [] c = ";" -> 59 [] c = ":" -> 58
              [] c = "?" -> 63 [] c = "#" -> 35 [] c = "!" -> 33 [] c = "\"" -> 34
              [] c = "$" -> 36 [] c = "-" -> 45 [] c = "~" -> 126 [] c = "m" -> 109
              [] c = "r" -> 114 [] c = "g" -> 103 [] c = "b" -> 98 [] c = "/" -> 47
              [] c = "f" -> 102 [] c = "q" -> 113 [] c = " " -> 32 [] c = "|" -> 124
              [] c = "*" -> 42 [] c = "s" -> 115 [] c = "t" -> 116 [] c = "p" -> 112
              [] c = "x" -> 120 [] c = "L" -> 76 [] c = "H" -> 72 [] c = "A" -> 65
              [] c = "+" -> 43 [] c = "@" -> 64 [] c = "a" -> 97 [] c = "F" -> 70
              [] c = "[" -> 91 [] c = "]" -> 93 [] c = "h" -> 104 [] c = "l" -> 108
              [] c = "y" -> 121 [] c = "D" -> 68 [] c = "M" -> 77 [] c = "Q" -> 81]

\* The bytes of a string given as a tuple of one-character strings.
Bytes(s) == [i \in 1..Len(s) |-> Ascii[s[i]]]

Min(a, b) == IF a < b THEN a ELSE b
Max(a, b) == IF a > b THEN a ELSE b
Last(s) == s[Len(s)]

isdigit(c) == c >= 48 /\ c <= 57

\* One call on Screen or Terminal, with its arguments as numbers.
Call(op, args) == [op |-> op, args |-> args]

----------------------------------------------------------------------------
(* unicode::from_utf8 and its decoder state (libunicode). *)

Utf8Initial == [character |-> 0, expectedLength |-> 0, currentLength |-> 0]

\* from_utf8(state, byte): the result ("Success", "Incomplete" or "Invalid"), the
\* decoded value and the state left behind.
from_utf8(st, byte) ==
    IF st.expectedLength = 0
    THEN IF byte < 128
         THEN [kind |-> "Success", value |-> byte,
               state |-> [st EXCEPT !.currentLength = 1]]
         ELSE IF byte \div 32 = 6
         THEN [kind |-> "Incomplete", value |-> 0,
               state |-> [character |-> byte % 32, expectedLength |-> 2,
                          currentLength |-> 1]]
         ELSE IF byte \div 16 = 14
         THEN [kind |-> "Incomplete", value |-> 0,
               state |-> [character |-> byte % 16, expectedLength |-> 3,
                          currentLength |-> 1]]
         ELSE IF byte \div 8 = 30
         THEN [kind |-> "Incomplete", value |-> 0,
               state |-> [character |-> byte % 8, expectedLength |-> 4,
                          currentLength |-> 1]]
         ELSE [kind |-> "Invalid", value |-> 0, state |-> Utf8Initial]
    ELSE IF byte \div 64 # 2
         THEN [kind |-> "Invalid", value |-> 0, state |-> Utf8Initial]
         ELSE LET ch == st.character * 64 + (byte % 64)
                  n == st.currentLength + 1
              IN  IF n < st.expectedLength
                  THEN [kind |-> "Incomplete", value |-> 0,
                        state |-> [st EXCEPT !.character = ch, !.currentLength = n]]
                  ELSE [kind |-> "Success", value |-> ch,
                        state |-> [character |-> ch, expectedLength |-> 0,
                                   currentLength |-> n]]

ReplacementCharacter == 65533

----------------------------------------------------------------------------
(* The Sequence under construction. *)

\* FunctionCategory
CategoryC0 == "C0"

EmptySequence == [category |-> CategoryC0, leaderSymbol |-> 0,
                  intermediateCharacters |-> <<>>, parameters |-> <<>>,
                  finalChar |-> 0]

\* Sequence::clear
SequenceClear(seq) == EmptySequence

\* Sequencer::param, on the parameter list.
ParamNoCap(params, ch) ==
    LET p0 == IF params = <<>> THEN << <<0>> >> ELSE params
        n == Len(p0)
    IN  IF ch = 59 THEN Append(p0, <<0>>)
        ELSE IF ch = 58 THEN [p0 EXCEPT ![n] = Append(@, 0)]
        ELSE IF isdigit(ch) THEN [p0 EXCEPT ![n][Len(p0[n])] = @ * 10 + (ch - 48)]
        ELSE p0

ParamNoParameterCap(params, ch) ==
    LET p0 == IF params = <<>> THEN << <<0>> >> ELSE params
        n == Len(p0)
    IN  IF ch = 59 THEN Append(p0, <<0>>)
        ELSE IF ch = 58
        THEN IF Len(p0[n]) < MaxParameters THEN [p0 EXCEPT ![n] = Append(@, 0)] ELSE p0
        ELSE IF isdigit(ch) THEN [p0 EXCEPT ![n][Len(p0[n])] = @ * 10 + (ch - 48)]
        ELSE p0

Param(params, ch) ==
    LET p0 == IF params = <<>> THEN << <<0>> >> ELSE params
        n == Len(p0)
    IN  IF ch = 59
        THEN IF Len(p0) < MaxParameters THEN Append(p0, <<0>>) ELSE p0
        ELSE IF ch = 58
        THEN IF Len(p0[n]) < MaxParameters THEN [p0 EXCEPT ![n] = Append(@, 0)] ELSE p0
        ELSE IF isdigit(ch) THEN [p0 EXCEPT ![n][Len(p0[n])] = @ * 10 + (ch - 48)]
        ELSE p0

\* Sequencer::collect, on the intermediate characters.
Collect(inter, ch) == Append(inter, ch)

----------------------------------------------------------------------------
(* Sequencer::executeControlFunction: the calls a C0 control code makes. *)

executeControlFunction(c0) ==
    IF c0 = 7 THEN <<Call("bell", <<>>)>>
    ELSE IF c0 = 8 THEN <<Call("backspace", <<>>)>>
    ELSE IF c0 = 9 THEN <<Call("moveCursorToNextTab", <<>>)>>
    ELSE IF c0 = 10 THEN <<Call("linefeed", <<>>)>>
    ELSE IF c0 = 11 \/ c0 = 12 THEN <<Call("index", <<>>)>>
    ELSE IF c0 = 13 THEN <<Call("moveCursorToBeginOfLine", <<>>)>>
    ELSE IF c0 = 55 THEN <<Call("saveCursor", <<>>)>>
    ELSE IF c0 = 56 THEN <<Call("restoreCursor", <<>>)>>
    ELSE <<>>

----------------------------------------------------------------------------
(* SixelColorPalette *)

\* The VT340 default colours.
defaultColors ==
    << <<0, 0, 0>>, <<51, 51, 204>>, <<204, 33, 33>>, <<51, 204, 51>>,
       <<204, 51, 204>>, <<51, 204, 204>>, <<204, 204, 51>>, <<135, 135, 135>>,
       <<66, 66, 66>>, <<84, 84, 153>>, <<153, 66, 66>>, <<84, 153, 84>>,
       <<153, 84, 153>>, <<84, 153, 153>>, <<153, 153, 84>>, <<204, 204, 204>> >>

\* SixelColorPalette::SixelColorPalette and reset
NewSixelColorPalette(size, maxSize) ==
    [palette |-> [i \in 1..size |-> IF i <= Len(defaultColors) THEN defaultColors[i]
                                    ELSE <<0, 0, 0>>],
     maxSize |-> maxSize]

\* SixelColorPalette::setSize
PaletteSetSize(pal, newSize) ==
    LET n == Max(0, Min(newSize, pal.maxSize))
    IN  [pal EXCEPT !.palette = [i \in 1..n |-> IF i <= Len(pal.palette)
                                                THEN pal.palette[i] ELSE <<0, 0, 0>>]]

\* SixelColorPalette::setColor
PaletteSetColor(pal, index, color) ==
    IF index < pal.maxSize
    THEN LET grown == IF index >= Len(pal.palette) THEN PaletteSetSize(pal, index + 1)
                      ELSE pal
         IN  IF index >= 0 /\ index < Len(grown.palette)
             THEN [grown EXCEPT !.palette[index + 1] = color]
             ELSE grown
    ELSE pal

\* SixelColorPalette::at
PaletteAt(pal, index) == pal.palette[(index % Len(pal.palette)) + 1]

----------------------------------------------------------------------------
(* SixelImageBuilder: the record is the object; buffer holds its bytes. written *)
(* keeps, for every pixel that write has stored, where it went: the pixel, the   *)
(* byte offset, and the size and the buffer length at that time.                 *)

NoBuilder == [kind |-> "None"]

\* SixelImageBuilder::SixelImageBuilder and clear
NewSixelImageBuilder(maxSize, aspectVertical, aspectHorizontal, backgroundColor, colors, shared) ==
    [kind |-> "Builder",
     maxSize |-> maxSize,
     colors |-> colors,
     sharedColors |-> shared,
     size |-> maxSize,
     buffer |-> [k \in 1..(maxSize.width * maxSize.height * 4) |->
                    backgroundColor[((k - 1) % 4) + 1]],
     sixelCursor |-> [line |-> 0, column |-> 0],
     currentColor |-> 0,
     aspectRatio |-> [nominator |-> aspectVertical, denominator |-> aspectHorizontal],
     written |-> {}]

\* SixelImageBuilder::setColor
BuilderSetColor(b, index, color) == [b EXCEPT !.colors = PaletteSetColor(@, index, color)]

\* SixelImageBuilder::useColor
BuilderUseColor(b, index) == [b EXCEPT !.currentColor = index % Len(b.colors.palette)]

\* SixelImageBuilder::rewind
BuilderRewind(b) == [b EXCEPT !.sixelCursor.column = 0]

\* SixelImageBuilder::newline
BuilderNewline(b) ==
    [b EXCEPT !.sixelCursor.column = 0,
              !.sixelCursor.line = IF @ + 6 < b.size.height THEN @ + 6 ELSE @]

\* SixelImageBuilder::setRaster that takes the size as it is given.
BuilderSetRasterUnclamped(b, pan, pad, width, height) ==
    [b EXCEPT !.aspectRatio = [nominator |-> pan, denominator |-> pad],
              !.size = [width |-> width, height |-> height],
              !.buffer = [k \in 1..(width * height * 4) |->
                             IF k <= Len(b.buffer) THEN b.buffer[k] ELSE 0]]

\* SixelImageBuilder::setRaster
BuilderSetRaster(b, pan, pad, width, height) ==
    LET w == Max(0, Min(width, b.maxSize.width))
        h == Max(0, Min(height, b.maxSize.height))
    IN  [b EXCEPT !.aspectRatio = [nominator |-> pan, denominator |-> pad],
                  !.size = [width |-> w, height |-> h],
                  !.buffer = [k \in 1..(w * h * 4) |->
                                 IF k <= Len(b.buffer) THEN b.buffer[k] ELSE 0]]

\* Bit i of a sixel value.
Pinned(sixel, i) == (sixel \div (2 ^ i)) % 2 = 1

\* SixelImageBuilder::write that tests the column only.
InImageAnyLine(b, line, column) == column >= 0 /\ column < b.size.width

\* SixelImageBuilder::write accepts the pixel (line, column).
InImage(b, line, column) ==
    line >= 0 /\ line < b.size.height /\ column >= 0 /\ column < b.size.width

\* SixelImageBuilder::render with SixelImageBuilder::write: the six pixels of one
\* sixel, in the current colour, and the cursor one column on.
BuilderRender(b, sixel) ==
    LET x == b.sixelCursor.column
        color == PaletteAt(b.colors, b.currentColor)
        rgba == <<color[1], color[2], color[3], 255>>
        lines == {b.sixelCursor.line + i :
                      i \in {j \in 0..5 : /\ Pinned(sixel, j)
                                           /\ InImage(b, b.sixelCursor.line + j, x)}}
        bases == {line * b.size.width * 4 + x * 4 : line \in lines}
    IN  IF x < b.size.width
        THEN [b EXCEPT !.buffer = [k \in 1..Len(b.buffer) |->
                                      IF ((k - 1) \div 4) * 4 \in bases
                                      THEN rgba[((k - 1) % 4) + 1]
                                      ELSE b.buffer[k]],
                       !.sixelCursor.column = x + 1,
                       !.written = @ \cup
                           {[line |-> line, column |-> x,
                             base |-> line * b.size.width * 4 + x * 4,
                             size |-> b.size, length |-> Len(b.buffer)] :
                                line \in lines}]
        ELSE b

\* The loop of the repeat that renders the sixel once.
BuilderRenderOnce(b, sixel, n) == IF n <= 0 THEN b ELSE BuilderRender(b, sixel)

\* SixelParser::parse, state RepeatIntroducer: the loop that renders the sixel n times.
RECURSIVE BuilderRenderTimes(_, _, _)
BuilderRenderTimes(b, sixel, n) ==
    IF n <= 0 THEN b ELSE BuilderRenderTimes(BuilderRender(b, sixel), sixel, n - 1)

----------------------------------------------------------------------------
(* SixelParser: p is the parser (state_, params_), b the image builder it feeds. *)
(* Each operator gives the two as they are left: [p |-> ..., b |-> ...].        *)

isSixel(value) == value >= 63 /\ value <= 126
toSixel(value) == value - 63

\* converts a colour component from range 0..100 to 0..255
convertValue(value) == ((value * 255) \div 100) % 256

\* SixelParser::enterState
SixelEnterState(p) ==
    IF p.state_ \in {"ColorIntroducer", "RepeatIntroducer", "RasterSettings"}
    THEN [p EXCEPT !.params_ = <<0>>]
    ELSE p

\* SixelParser::leaveState
SixelLeaveState(p, b) ==
    IF p.state_ = "RasterSettings" /\ Len(p.params_) = 4
    THEN [p |-> [p EXCEPT !.state_ = "Ground"],
          b |-> BuilderSetRaster(b, p.params_[1], p.params_[2], p.params_[3],
                                 p.params_[4])]
    ELSE IF p.state_ = "ColorParam" /\ Len(p.params_) = 1
    THEN [p |-> p, b |-> BuilderUseColor(b, p.params_[1])]
    ELSE IF p.state_ = "ColorParam" /\ Len(p.params_) = 5 /\ p.params_[2] = 2
    THEN [p |-> p,
          b |-> BuilderSetColor(b, p.params_[1],
                                <<convertValue(p.params_[3]), convertValue(p.params_[4]),
                                  convertValue(p.params_[5])>>)]
    ELSE [p |-> p, b |-> b]

\* SixelParser::transitionTo
SixelTransitionTo(p, b, newState) ==
    LET left == SixelLeaveState(p, b)
    IN  [p |-> SixelEnterState([left.p EXCEPT !.state_ = newState]), b |-> left.b]

\* SixelParser::paramShiftAndAddDigit
paramShiftAndAddDigit(p, digit) ==
    [p EXCEPT !.params_[Len(p.params_)] = @ * 10 + digit]

\* SixelParser::fallback
SixelFallback(p, b, value) ==
    IF value = 35 THEN SixelTransitionTo(p, b, "ColorIntroducer")
    ELSE IF value = 33 THEN SixelTransitionTo(p, b, "RepeatIntroducer")
    ELSE IF value = 34 THEN SixelTransitionTo(p, b, "RasterSettings")
    ELSE IF value = 36
    THEN LET t == SixelTransitionTo(p, b, "Ground")
         IN  [p |-> t.p, b |-> BuilderRewind(t.b)]
    ELSE IF value = 45
    THEN LET t == SixelTransitionTo(p, b, "Ground")
         IN  [p |-> t.p, b |-> BuilderNewline(t.b)]
    ELSE LET t == IF p.state_ # "Ground" THEN SixelTransitionTo(p, b, "Ground")
                  ELSE [p |-> p, b |-> b]
         IN  IF isSixel(value)
             THEN [p |-> t.p, b |-> BuilderRender(t.b, toSixel(value))]
             ELSE t

\* SixelParser::parse
SixelParse(p, b, value) ==
    IF p.state_ = "Ground" THEN SixelFallback(p, b, value)
    ELSE IF p.state_ = "RepeatIntroducer"
    THEN IF isdigit(value) THEN [p |-> paramShiftAndAddDigit(p, value - 48), b |-> b]
         ELSE IF isSixel(value)
         THEN SixelTransitionTo(p, BuilderRenderTimes(b, toSixel(value), p.params_[1]),
                                "Ground")
         ELSE SixelFallback(p, b, value)
    ELSE IF p.state_ = "ColorIntroducer"
    THEN IF isdigit(value)
         THEN SixelTransitionTo(paramShiftAndAddDigit(p, value - 48), b, "ColorParam")
         ELSE SixelFallback(p, b, value)
    ELSE \* ColorParam, RasterSettings
         IF isdigit(value) THEN [p |-> paramShiftAndAddDigit(p, value - 48), b |-> b]
         ELSE IF value = 59 THEN [p |-> [p EXCEPT !.params_ = Append(@, 0)], b |-> b]
         ELSE SixelFallback(p, b, value)

\* SixelParser::done without the leave action of the state it leaves.
SixelDoneWithoutLeaving(p, b) == [p |-> [p EXCEPT !.state_ = "Ground"], b |-> b]

\* SixelParser::done, up to the call of the finalizer.
SixelDone(p, b) == SixelTransitionTo(p, b, "Ground")

----------------------------------------------------------------------------
(* The Screen: its page, its margin, its cursor and its modes. *)

CellLocation(line, column) == [line |-> line, column |-> column]

\* Screen::Screen: the state of a screen with a page of the given size. The margin
\* is the page, the cursor is at home, no mode is enabled.
NewScreen(lines, columns) ==
    [pageSize |-> [lines |-> lines, columns |-> columns],
     margin |-> [vertical |-> [from |-> 0, to |-> lines - 1],
                 horizontal |-> [from |-> 0, to |-> columns - 1]],
     cursor |-> [originMode |-> FALSE, position |-> CellLocation(0, 0)],
     modes |-> [ansi |-> {}, dec |-> {}]]

\* std::clamp
clamp(v, lo, hi) == IF v < lo THEN lo ELSE IF hi < v THEN hi ELSE v

\* Screen::toRealCoordinate
toRealCoordinate(screen, pos) ==
    IF ~screen.cursor.originMode THEN pos
    ELSE CellLocation(pos.line + screen.margin.vertical.from,
                      pos.column + screen.margin.horizontal.from)

\* Screen::origin
origin(screen) ==
    IF ~screen.cursor.originMode THEN CellLocation(0, 0)
    ELSE CellLocation(screen.margin.vertical.from, screen.margin.horizontal.from)

\* Screen::clampToOrigin
clampToOrigin(screen, coord) ==
    CellLocation(clamp(coord.line, 0, screen.margin.vertical.to),
                 clamp(coord.column, 0, screen.margin.horizontal.to))

\* Screen::clampedLine, Screen::clampedColumn
clampedLine(screen, line) == clamp(line, 0, screen.pageSize.lines - 1)

clampedColumn(screen, column) == clamp(column, 0, screen.pageSize.columns - 1)

\* Screen::clampToScreen
clampToScreen(screen, coord) ==
    CellLocation(clampedLine(screen, coord.line), clampedColumn(screen, coord.column))

\* Screen::clampCoordinate
clampCoordinate(screen, coord) ==
    IF screen.cursor.originMode THEN clampToOrigin(screen, coord)
    ELSE clampToScreen(screen, coord)

\* Screen::contains
contains(screen, coord) ==
    /\ 0 <= coord.line /\ coord.line < screen.pageSize.lines
    /\ 0 <= coord.column /\ coord.column <= screen.pageSize.columns

----------------------------------------------------------------------------
(* History variables. *)

\* An event, with the state it met. handled: the Sequence it passed to handleSequence;
\* result: the ApplyResult of the function it applied; previous: the Sequence passed
\* to handleSequence before this event, and the screen it met.
Event(op, byte, didHandle, handled) ==
    [op |-> op, byte |-> byte, preUtf8 |-> utf8DecoderState, preParser |-> hookedParser_,
     preBuilder |-> sixelImageBuilder_, preOut |-> Len(out), preCalls |-> out,
     preSeq |-> sequence_, preCounter |-> instructionCounter,
     prePalette |-> colorPalette, preScreen |-> screenState,
     didHandle |-> didHandle, handled |-> handled, result |-> 0,
     previous |-> IF lastEvent.didHandle
                  THEN [handled |-> lastEvent.handled, preScreen |-> lastEvent.preScreen]
                  ELSE lastEvent.previous]

\* ParserExtension: the null pointer. owner is the number of the hook event that
\* installed a sub-parser and calls the calls it received, each with the number of
\* the hook event current at the call.
NoParser == [kind |-> "None", owner |-> 0, calls |-> <<>>, data_ |-> <<>>,
             state_ |-> "Ground", params_ |-> <<>>]

\* hooks: the hook events so far; open: a hook is not yet followed by its unhook;
\* wellFormed: no hook arrived while another was open; bytes: the bytes put since
\* the last hook; destroyed: the calls received by the sub-parser destroyed last.
NoDcs == [hooks |-> 0, open |-> FALSE, wellFormed |-> TRUE, bytes |-> <<>>,
          func |-> "None", destroyed |-> <<>>]

----------------------------------------------------------------------------
(* No TextureAtlas has been constructed. *)
NoAtlas == [kind |-> "None"]

(* The state after construction. *)

InitSequencer ==
    /\ utf8DecoderState = Utf8Initial
    /\ instructionCounter = 0
    /\ precedingGraphicCharacter = 0
    /\ hookedParser_ = NoParser
    /\ sixelImageBuilder_ = NoBuilder
    /\ imageColorPalette_ = NewSixelColorPalette(MaxImageRegisterCount,
                                                 MaxImageRegisterCount)
    /\ colorPalette = <<>>
    /\ out = <<>>
    /\ pty = <<>>
    /\ lastEvent = [op |-> "none", byte |-> 0, preUtf8 |-> Utf8Initial,
                    preParser |-> NoParser, preBuilder |-> NoBuilder, preOut |-> 0,
                    preCalls |-> <<>>, preSeq |-> EmptySequence, preCounter |-> 0,
                    prePalette |-> <<>>, preScreen |-> screenState,
                    didHandle |-> FALSE, handled |-> EmptySequence, result |-> 0,
                    previous |-> [handled |-> EmptySequence, preScreen |-> screenState]]
    /\ printed = <<>>
    /\ dcs = NoDcs
    /\ steps = 0

InitBase ==
    /\ sequence_ = EmptySequence
    /\ sent = <<>>
    /\ InitSequencer
    /\ textureAtlas = NoAtlas

Init ==
    /\ screenState = NewScreen(MaxPageLines, MaxPageColumns)
    /\ InitBase
    /\ usePrivateColorRegisters = FALSE

----------------------------------------------------------------------------
(* Sequencer::print(char), Sequencer::execute, Sequencer::clear. *)

PrintWritesWhileIncomplete(byte) ==
    LET r == from_utf8(utf8DecoderState, byte)
        codepoint == IF r.kind = "Success" THEN r.value ELSE ReplacementCharacter
    IN  /\ utf8DecoderState' = r.state
        /\ instructionCounter' = instructionCounter + 1
        /\ out' = Append(out, Call("writeText", <<codepoint>>))
        /\ precedingGraphicCharacter' = codepoint

print(byte) ==
    LET r == from_utf8(utf8DecoderState, byte)
        codepoint == IF r.kind = "Success" THEN r.value ELSE ReplacementCharacter
    IN  /\ utf8DecoderState' = r.state
        /\ IF r.kind = "Incomplete"
           THEN UNCHANGED <<instructionCounter, out, precedingGraphicCharacter>>
           ELSE /\ instructionCounter' = instructionCounter + 1
                /\ out' = Append(out, Call("writeText", <<codepoint>>))
                /\ precedingGraphicCharacter' = codepoint

OnPrint(byte) ==
    /\ print(byte)
    /\ lastEvent' = Event("print", byte, FALSE, EmptySequence)
    /\ printed' = Append(printed, byte)
    /\ steps' = steps + 1
    /\ UNCHANGED <<sequence_, colorPalette, screenState, sent, dcsVars>>
    /\ UNCHANGED textureAtlas

ExecuteKeepsDecoder(controlCode) ==
    /\ out' = out \o executeControlFunction(controlCode)
    /\ instructionCounter' = instructionCounter + 1
    /\ UNCHANGED utf8DecoderState

execute(controlCode) ==
    /\ out' = out \o executeControlFunction(controlCode)
    /\ instructionCounter' = instructionCounter + 1
    /\ utf8DecoderState' = Utf8Initial

OnExecute(controlCode) ==
    /\ execute(controlCode)
    /\ lastEvent' = Event("execute", controlCode, FALSE, EmptySequence)
    /\ printed' = <<>>
    /\ steps' = steps + 1
    /\ UNCHANGED <<sequence_, precedingGraphicCharacter, colorPalette, screenState, sent, dcsVars>>
    /\ UNCHANGED textureAtlas

clear ==
    /\ sequence_' = SequenceClear(sequence_)
    /\ utf8DecoderState' = Utf8Initial

OnClear ==
    /\ clear
    /\ lastEvent' = Event("clear", 0, FALSE, EmptySequence)
    /\ sent' = <<>>
    /\ printed' = <<>>
    /\ steps' = steps + 1
    /\ UNCHANGED <<instructionCounter, precedingGraphicCharacter, colorPalette, screenState, out,
                   dcsVars>>
    /\ UNCHANGED textureAtlas

----------------------------------------------------------------------------
(* The printed text: bytes, control codes and sequence boundaries in any order. *)

\* 'A'; the lead byte of a two-byte and of a three-byte character; a continuation
\* byte; a byte that starts no character.
PrintBytes == {65, 195, 226, 164, 255}

\* BEL, LF, SO
ControlCodes == {7, 10, 14}

NextPrint ==
    \/ steps < MaxPrintEvents /\ UNCHANGED pty /\ \E byte \in PrintBytes : OnPrint(byte)
    \/ steps < MaxPrintEvents /\ UNCHANGED pty /\ \E c \in ControlCodes : OnExecute(c)
    \/ steps < MaxPrintEvents /\ UNCHANGED pty /\ OnClear

SpecPrint == Init /\ [][NextPrint]_vars

\* The decoder state that decoding bytes, in order, leaves behind.
RECURSIVE DecodeAll(_, _)
DecodeAll(st, bytes) ==
    IF bytes = <<>> THEN st
    ELSE DecodeAll(from_utf8(st, Head(bytes)).state, Tail(bytes))

\* C8: for every print(byte) event, while the decoder reports an incomplete sequence
\* nothing is written; otherwise exactly one codepoint is written to the screen, the
\* decoded one on success and U+FFFD on malformed input, and the decoder is left
\* ready for the bytes that follow.
C8_PrintWritesOneCodepoint ==
    lastEvent.op = "print" =>
        LET r == from_utf8(lastEvent.preUtf8, lastEvent.byte)
        IN  IF r.kind = "Incomplete"
            THEN Len(out) = lastEvent.preOut
            ELSE /\ Len(out) = lastEvent.preOut + 1
                 /\ Last(out) = Call("writeText",
                                     <<IF r.kind = "Success" THEN r.value ELSE 65533>>)
                 /\ utf8DecoderState.expectedLength = 0

\* A malformed byte was written as U+FFFD and the character after it was decoded.
C8_Witness ==
    /\ lastEvent.op = "print"
    /\ Len(out) >= 2
    /\ out[Len(out) - 1] = Call("writeText", <<65533>>)
    /\ Last(out) = Call("writeText", <<228>>)

\* C9: immediately after every execute event and every clear event the UTF-8 decoder
\* state is the initial state, so the decoder state never depends on bytes printed
\* before the last control code or sequence boundary.
C9_DecoderResetOnBoundary ==
    /\ lastEvent.op \in {"execute", "clear"} => utf8DecoderState = Utf8Initial
    /\ utf8DecoderState = DecodeAll(Utf8Initial, printed)

\* A control code arrived in the middle of a multi-byte character.
C9_Witness ==
    /\ lastEvent.op = "execute"
    /\ lastEvent.preUtf8.expectedLength # 0
    /\ utf8DecoderState = Utf8Initial

----------------------------------------------------------------------------
(* Operating system commands: parseOSC, parseColor, queryOrSetColorPalette and    *)
(* SETCOLPAL.                                                                     *)

\* crispy::split: the pieces of text between the delimiters.
RECURSIVE Split(_, _)
Split(text, delimiter) ==
    IF text = <<>> THEN <<>>
    ELSE IF \E i \in 1..Len(text) : text[i] = delimiter
    THEN LET i == CHOOSE j \in 1..Len(text) :
                      /\ text[j] = delimiter
                      /\ \A k \in 1..(j - 1) : text[k] # delimiter
         IN  <<SubSeq(text, 1, i - 1)>> \o Split(SubSeq(text, i + 1, Len(text)), delimiter)
    ELSE <<text>>

\* The value of a hexadecimal digit, or -1.
fromHexDigit(c) ==
    IF c >= 48 /\ c <= 57 THEN c - 48
    ELSE IF c >= 65 /\ c <= 70 THEN c - 55
    ELSE IF c >= 97 /\ c <= 102 THEN c - 87
    ELSE -1

\* crispy::to_integer<10, int>: the number a string of decimal digits writes, or -1
\* (the value_or of its caller) when it is not one.
RECURSIVE to_integer(_)
to_integer(text) ==
    IF text = <<>> \/ \E i \in 1..Len(text) : ~isdigit(text[i]) THEN -1
    ELSE IF Len(text) = 1 THEN text[1] - 48
    ELSE to_integer(SubSeq(text, 1, Len(text) - 1)) * 10 + (Last(text) - 48)

\* code * 10 + digit in an int of 32 bits, as two's complement arithmetic gives it:
\* the halves of 16 bits are computed apart, which keeps every number in range.
IntTimes10Plus(code, digit) ==
    LET low == (code % 65536) * 10 + digit
        high == (((code \div 65536) % 65536) * 10 + (low \div 65536)) % 65536
    IN  IF high >= 32768 THEN (high - 65536) * 65536 + (low % 65536)
        ELSE high * 65536 + (low % 65536)

\* code * 10 + digit is above the largest int, 2147483647.
IntOverflows(code, digit) ==
    code > 214748364 \/ (code = 214748364 /\ digit > 7)

\* parseOSC: the OSC code of a payload and the offset of its first data byte.
RECURSIVE parseOSCDigits(_, _, _)
parseOSCDigits(data, code, i) ==
    IF i < Len(data) /\ isdigit(data[i + 1])
    THEN parseOSCDigits(data, IntTimes10Plus(code, data[i + 1] - 48), i + 1)
    ELSE [code |-> code, i |-> i]

\* parseOSC: the loop over the digits overflows its int at some digit.
RECURSIVE parseOSCOverflows(_, _, _)
parseOSCOverflows(data, code, i) ==
    /\ i < Len(data)
    /\ isdigit(data[i + 1])
    /\ \/ IntOverflows(code, data[i + 1] - 48)
       \/ parseOSCOverflows(data, IntTimes10Plus(code, data[i + 1] - 48), i + 1)

\* parseOSC that leaves the ';' behind the code in the data.
parseOSCKeepsSeparator(data) ==
    LET digits == parseOSCDigits(data, 0, 0)
    IN  IF digits.i = 0 /\ data # <<>> /\ data[1] # 59
        THEN [code |-> 0 - data[1], skipCount |-> 1]
        ELSE [code |-> digits.code, skipCount |-> digits.i]

parseOSC(data) ==
    LET digits == parseOSCDigits(data, 0, 0)
        lettered == IF digits.i = 0 /\ data # <<>> /\ data[1] # 59
                    THEN [code |-> 0 - data[1], i |-> 1]
                    ELSE digits
    IN  IF lettered.i < Len(data) /\ data[lettered.i + 1] = 59
        THEN [code |-> lettered.code, skipCount |-> lettered.i + 1]
        ELSE [code |-> lettered.code, skipCount |-> lettered.i]

\* The codes that parseOSC may return. The overflow of a signed int is undefined:
\* the code is then the number that two's complement arithmetic gives, or another
\* int.
parseOSCCodes(data) ==
    IF parseOSCOverflows(data, 0, 0)
    THEN {parseOSC(data).code, 0, 2147483647}
    ELSE {parseOSC(data).code}

RGBColor(r, g, b) == [red |-> r, green |-> g, blue |-> b]

\* crispy::to_integer<16, uint8_t> of one or two digits, or -1.
HexByte(text) ==
    IF \E i \in 1..Len(text) : fromHexDigit(text[i]) < 0 THEN -1
    ELSE IF Len(text) = 1 THEN fromHexDigit(text[1])
    ELSE fromHexDigit(text[1]) * 16 + fromHexDigit(text[2])

\* parseColor(string_view): "rgb:RR/GG/BB", "#RRGGBB" or "#RGB"; ok is false for
\* everything else.
parseColor(value) ==
    LET none == [ok |-> FALSE, color |-> RGBColor(0, 0, 0)]
        some(r, g, b) == IF r < 0 \/ g < 0 \/ b < 0 THEN none
                         ELSE [ok |-> TRUE, color |-> RGBColor(r, g, b)]
    IN  IF /\ Len(value) = 12
           /\ SubSeq(value, 1, 4) = <<114, 103, 98, 58>>
           /\ value[7] = 47
           /\ value[10] = 47
        THEN some(HexByte(SubSeq(value, 5, 6)), HexByte(SubSeq(value, 8, 9)),
                  HexByte(SubSeq(value, 11, 12)))
        ELSE IF Len(value) = 7 /\ value[1] = 35
        THEN some(HexByte(SubSeq(value, 2, 3)), HexByte(SubSeq(value, 4, 5)),
                  HexByte(SubSeq(value, 6, 7)))
        ELSE IF Len(value) = 4 /\ value[1] = 35
        THEN LET r == HexByte(SubSeq(value, 2, 2))
                 g == HexByte(SubSeq(value, 3, 3))
                 b == HexByte(SubSeq(value, 4, 4))
             IN  IF r < 0 \/ g < 0 \/ b < 0 THEN none
                 ELSE some((r * 16) % 256, (g * 16) % 256, (b * 16) % 256)
        ELSE none

\* queryOrSetColorPalette that goes on behind a malformed piece.
RECURSIVE queryOrSetColorPaletteGoesOn(_, _, _)
queryOrSetColorPaletteGoesOn(pieces, index, ops) ==
    IF pieces = <<>> THEN [ok |-> TRUE, ops |-> ops]
    ELSE LET value == Head(pieces)
             skipped == queryOrSetColorPaletteGoesOn(Tail(pieces), -1, ops)
         IN  IF index < 0
             THEN IF ~(0 <= to_integer(value) /\ to_integer(value) <= 255)
                  THEN [ok |-> FALSE, ops |-> skipped.ops]
                  ELSE queryOrSetColorPaletteGoesOn(Tail(pieces), to_integer(value), ops)
             ELSE IF value = <<63>>
             THEN queryOrSetColorPaletteGoesOn(Tail(pieces), -1,
                      Append(ops, [query |-> TRUE, index |-> index,
                                   color |-> RGBColor(0, 0, 0)]))
             ELSE IF parseColor(value).ok
             THEN queryOrSetColorPaletteGoesOn(Tail(pieces), -1,
                      Append(ops, [query |-> FALSE, index |-> index,
                                   color |-> parseColor(value).color]))
             ELSE [ok |-> FALSE, ops |-> skipped.ops]

\* queryOrSetColorPalette: the queries and settings of a payload, left to right,
\* up to its end or its first malformed piece; ok is false when it has one.
RECURSIVE queryOrSetColorPaletteFrom(_, _, _)
queryOrSetColorPaletteFrom(pieces, index, ops) ==
    IF pieces = <<>> THEN [ok |-> TRUE, ops |-> ops]
    ELSE LET value == Head(pieces)
         IN  IF index < 0
             THEN LET parsed == to_integer(value)
                  IN  IF ~(0 <= parsed /\ parsed <= 255)
                      THEN [ok |-> FALSE, ops |-> ops]
                      ELSE queryOrSetColorPaletteFrom(Tail(pieces), parsed, ops)
             ELSE IF value = <<63>>
             THEN queryOrSetColorPaletteFrom(Tail(pieces), -1,
                      Append(ops, [query |-> TRUE, index |-> index,
                                   color |-> RGBColor(0, 0, 0)]))
             ELSE IF parseColor(value).ok
             THEN queryOrSetColorPaletteFrom(Tail(pieces), -1,
                      Append(ops, [query |-> FALSE, index |-> index,
                                   color |-> parseColor(value).color]))
             ELSE [ok |-> FALSE, ops |-> ops]

queryOrSetColorPalette(text) == queryOrSetColorPaletteFrom(Split(text, 59), -1, <<>>)

\* ColorPalette::palette of the default palette. The colours are stand-ins, one for
\* each index.
defaultColorPalette(index) == RGBColor(index, (index * 2) % 256, 255 - index)

\* colorPalette holds the entries that were set; the others are the default ones.
PaletteColor(palette, index) ==
    IF index \in DOMAIN palette THEN palette[index] ELSE defaultColorPalette(index)

\* fmt: a number in decimal, and in four lower-case hexadecimal digits.
RECURSIVE Decimal(_)
Decimal(n) == IF n < 10 THEN <<48 + n>> ELSE Append(Decimal(n \div 10), 48 + (n % 10))

HexChar(d) == IF d < 10 THEN 48 + d ELSE 87 + d

Hex4(n) == <<HexChar((n \div 4096) % 16), HexChar((n \div 256) % 16),
             HexChar((n \div 16) % 16), HexChar(n % 16)>>

\* The reply to a query with the component in the high byte only.
ColorReplyHighByte(index, color) ==
    Call("reply", <<27, 93, 52, 59>> \o Decimal(index) \o <<59, 114, 103, 98, 58>>
                      \o Hex4(color.red * 256) \o <<47>>
                      \o Hex4(color.green * 256) \o <<47>>
                      \o Hex4(color.blue * 256) \o <<27, 92>>)

\* The reply to the query of a palette entry: "\033]4;{};rgb:{:04x}/{:04x}/{:04x}\033\\".
ColorReply(index, color) ==
    Call("reply", <<27, 93, 52, 59>> \o Decimal(index) \o <<59, 114, 103, 98, 58>>
                      \o Hex4(color.red * 256 + color.red) \o <<47>>
                      \o Hex4(color.green * 256 + color.green) \o <<47>>
                      \o Hex4(color.blue * 256 + color.blue) \o <<27, 92>>)

\* SETCOLPAL with its replies in the reverse order.
RECURSIVE SETCOLPALRepliesReversed(_, _, _)
SETCOLPALRepliesReversed(ops, palette, calls) ==
    IF ops = <<>> THEN [calls |-> calls, colorPalette |-> palette]
    ELSE LET o == Head(ops)
         IN  IF o.query
             THEN SETCOLPALRepliesReversed(Tail(ops), palette,
                      <<ColorReply(o.index, PaletteColor(palette, o.index))>> \o calls)
             ELSE SETCOLPALRepliesReversed(Tail(ops), (o.index :> o.color) @@ palette,
                                           calls)

\* SETCOLPAL: each query replies with the colour the entry has at that point, each
\* setting stores its colour.
RECURSIVE SETCOLPAL(_, _, _)
SETCOLPAL(ops, palette, calls) ==
    IF ops = <<>> THEN [calls |-> calls, colorPalette |-> palette]
    ELSE LET o == Head(ops)
         IN  IF o.query
             THEN SETCOLPAL(Tail(ops), palette,
                      Append(calls, ColorReply(o.index, PaletteColor(palette, o.index))))
             ELSE SETCOLPAL(Tail(ops), (o.index :> o.color) @@ palette, calls)

\* Sequence::parameterCount, param, subParameterCount and subparam, with indexes
\* from 0: a parameter is its value followed by its sub-parameters.
SequenceParameterCount(seq) == Len(seq.parameters)

SequenceParam(seq, index) == seq.parameters[index + 1][1]

\* Sequence::param_or: the default stands in for a parameter that was omitted; an
\* omitted parameter is one behind the last, or one that holds 0.
param_or(seq, index, defaultValue) ==
    IF index < SequenceParameterCount(seq) /\ SequenceParam(seq, index) # 0
    THEN SequenceParam(seq, index)
    ELSE defaultValue

SequenceSubParameterCount(seq, index) == Len(seq.parameters[index + 1]) - 1

\* A read of a sub-parameter behind the last one of its parameter is a read outside
\* the parameter's storage: it yields whatever lies there, seq.beyond.
SequenceSubparam(seq, index, subIndex) ==
    IF subIndex < SequenceSubParameterCount(seq, index)
    THEN seq.parameters[index + 1][subIndex + 2]
    ELSE seq.beyond

\* What may lie behind the storage of a parameter: a value that passes for a colour
\* index, and one that does not.
BeyondValues == {0, 7, 256}

\* The Sequence as the functions read it, with a value behind the storage of its
\* parameters.
InMemory(seq, beyond) ==
    [category |-> seq.category, leaderSymbol |-> seq.leaderSymbol,
     intermediateCharacters |-> seq.intermediateCharacters,
     parameters |-> seq.parameters, finalChar |-> seq.finalChar, beyond |-> beyond]

\* ApplyResult, in the order of its enumerators.
Ok == 0
Invalid == 1
Unsupported == 2

\* Sequence::functionDefinition: the function a sequence selects, "None" when it
\* selects none.
functionDefinition(seq) ==
    IF seq.category = "OSC" /\ seq.parameters # <<>>
    THEN LET code == seq.parameters[1][1]
         IN  IF code = 0 THEN "SETTITLE"
             ELSE IF code = 1 THEN "SETICON"
             ELSE IF code = 2 THEN "SETWINTITLE"
             ELSE IF code = 4 THEN "SETCOLPAL"
             ELSE "None"
    ELSE IF seq.category = "CSI" /\ seq.intermediateCharacters = <<36>>
    THEN IF seq.leaderSymbol = 0 /\ seq.finalChar = 120 THEN "DECFRA"
         ELSE IF seq.leaderSymbol = 0 /\ seq.finalChar = 122 THEN "DECERA"
         ELSE IF seq.leaderSymbol = 0 /\ seq.finalChar = 124 THEN "DECSCPP"
         ELSE "None"
    ELSE IF seq.category = "CSI" /\ seq.intermediateCharacters = <<42>>
    THEN IF seq.leaderSymbol = 0 /\ seq.finalChar = 124 THEN "DECSNLS"
         ELSE "None"
    ELSE IF seq.category = "CSI" /\ seq.intermediateCharacters = <<>>
    THEN IF seq.leaderSymbol = 0 /\ seq.finalChar = 109 THEN "SGR"
         ELSE IF seq.leaderSymbol = 0 /\ seq.finalChar = 104 THEN "SM"
         ELSE IF seq.leaderSymbol = 0 /\ seq.finalChar = 108 THEN "RM"
         ELSE IF seq.leaderSymbol = 0 /\ seq.finalChar = 98 THEN "REP"
         ELSE IF seq.leaderSymbol = 0 /\ seq.finalChar = 72 THEN "CUP"
         ELSE IF seq.leaderSymbol = 0 /\ seq.finalChar = 102 THEN "HVP"
         ELSE IF seq.leaderSymbol = 0 /\ seq.finalChar = 103 THEN "TBC"
         ELSE IF seq.leaderSymbol = 63 /\ seq.finalChar = 104 THEN "DECSM"
         ELSE IF seq.leaderSymbol = 63 /\ seq.finalChar = 108 THEN "DECRM"
         ELSE "None"
    ELSE IF seq.category = "ESC" /\ seq.intermediateCharacters = <<>>
    THEN IF seq.finalChar = 68 THEN "IND"
         ELSE IF seq.finalChar = 77 THEN "RI"
         ELSE "None"
    ELSE "None"

----------------------------------------------------------------------------
(* DECSM, DECRM, SM and RM. *)

\* The mode numbers toDECMode knows.
DECModeNumbers ==
    {1, 2, 3, 4, 5, 6, 7, 9, 10, 12, 19, 25, 30, 40, 46, 47, 69, 80, 1000, 1001, 1002,
     1003, 1004, 1005, 1006, 1007, 1015, 1016, 1047, 1048, 1049, 2004, 2026, 2027, 8452}

\* toDECMode: the DECMode of a mode number, -1 (nullopt) when it has none. A DECMode
\* is written as the least mode number that selects it: 47 and 1047 both select
\* DECMode::UseAlternateScreen.
toDECMode(value) ==
    IF value = 1047 THEN 47
    ELSE IF value \in DECModeNumbers THEN value
    ELSE -1

\* Screen::setMode(AnsiMode, bool) and Screen::setMode(DECMode, bool): the mode is
\* enabled or disabled in its namespace ("ansi" or "dec"); DECMode::Origin is the
\* origin mode of the cursor as well.
setMode(screen, namespace, mode, enable) ==
    LET stored == [screen EXCEPT !.modes[namespace] =
                       IF enable THEN @ \cup {mode} ELSE @ \ {mode}]
    IN  IF namespace = "dec" /\ mode = 6
        THEN [stored EXCEPT !.cursor.originMode = enable]
        ELSE stored

\* The call that setMode is.
SetModeCall(namespace, mode, enable) ==
    Call("setMode", <<IF namespace = "dec" THEN 1 ELSE 0, mode, IF enable THEN 1 ELSE 0>>)

\* impl::setAnsiMode
setAnsiMode(seq, modeIndex, enable, screen) ==
    IF SequenceParam(seq, modeIndex) = 4
    THEN [result |-> Ok, screenState |-> setMode(screen, "ansi", 4, enable),
          calls |-> <<SetModeCall("ansi", 4, enable)>>]
    ELSE [result |-> Unsupported, screenState |-> screen, calls |-> <<>>]

\* impl::setModeDEC that enables the mode whatever it is asked.
setModeDECIgnoresEnable(seq, modeIndex, enable, screen) ==
    LET mode == toDECMode(SequenceParam(seq, modeIndex))
    IN  IF mode # -1
        THEN [result |-> Ok, screenState |-> setMode(screen, "dec", mode, TRUE),
              calls |-> <<SetModeCall("dec", mode, TRUE)>>]
        ELSE [result |-> Invalid, screenState |-> screen, calls |-> <<>>]

\* impl::setModeDEC
setModeDEC(seq, modeIndex, enable, screen) ==
    LET mode == toDECMode(SequenceParam(seq, modeIndex))
    IN  IF mode # -1
        THEN [result |-> Ok, screenState |-> setMode(screen, "dec", mode, enable),
              calls |-> <<SetModeCall("dec", mode, enable)>>]
        ELSE [result |-> Invalid, screenState |-> screen, calls |-> <<>>]

\* DECSM and SM that stop at the first mode number they do not know.
RECURSIVE setModesUntilUnknown(_, _, _, _, _)
setModesUntilUnknown(seq, i, enable, namespace, done) ==
    IF i >= SequenceParameterCount(seq) THEN done
    ELSE LET t == IF namespace = "dec" THEN setModeDEC(seq, i, enable, done.screenState)
                  ELSE setAnsiMode(seq, i, enable, done.screenState)
         IN  IF t.result # Ok THEN [done EXCEPT !.result = Max(@, t.result)]
             ELSE setModesUntilUnknown(seq, i + 1, enable, namespace,
                      [result |-> Max(done.result, t.result), screenState |-> t.screenState,
                       calls |-> done.calls \o t.calls])

\* Sequencer::apply for DECSM, DECRM, SM and RM: the parameters from index i on,
\* each set or reset in turn, and the worst of their results.
RECURSIVE setModes(_, _, _, _, _)
setModes(seq, i, enable, namespace, done) ==
    IF i >= SequenceParameterCount(seq) THEN done
    ELSE LET t == IF namespace = "dec" THEN setModeDEC(seq, i, enable, done.screenState)
                  ELSE setAnsiMode(seq, i, enable, done.screenState)
         IN  setModes(seq, i + 1, enable, namespace,
                      [result |-> Max(done.result, t.result), screenState |-> t.screenState,
                       calls |-> done.calls \o t.calls])

----------------------------------------------------------------------------
(* SGR: impl::parseColor of a Sequence, and impl::dispatchSGR. *)

\* Color: the empty Color{}, DefaultColor(), an IndexedColor (a uint8_t), a
\* BrightColor and an RGB colour, each a tuple that starts with its kind.
EmptyColor == <<0>>

DefaultColor == <<1>>

IndexedColor(index) == <<2, index % 256>>

BrightColor(index) == <<3, index>>

Color(rgb) == <<4, rgb.red, rgb.green, rgb.blue>>

\* impl::parseColor(Sequence, size_t*) at parameter pi: the colour it returns and
\* the value it leaves in *pi.
parseColorAt(seq, pi) ==
    LET count == SequenceParameterCount(seq)
        len == SequenceSubParameterCount(seq, pi)
        kind == IF len >= 1 THEN SequenceSubparam(seq, pi, 0) ELSE -1
        r == SequenceSubparam(seq, pi, len - 3)
        g == SequenceSubparam(seq, pi, len - 2)
        b == SequenceSubparam(seq, pi, len - 1)
        P == SequenceSubparam(seq, pi, 1)
        mode == SequenceParam(seq, pi + 1)
        value == SequenceParam(seq, pi + 2)
        cr == SequenceParam(seq, pi + 2)
        cg == SequenceParam(seq, pi + 3)
        cb == SequenceParam(seq, pi + 4)
    IN  IF kind = 2 /\ len \in {4, 5} /\ r <= 255 /\ g <= 255 /\ b <= 255
        THEN [color |-> Color(RGBColor(r, g, b)), pi |-> pi + 1]
        ELSE IF kind = 5 /\ P <= 255
        THEN [color |-> IndexedColor(P), pi |-> pi + 1]
        ELSE IF pi + 1 < count
        THEN IF mode = 5
             THEN IF pi + 2 < count
                  THEN IF pi + 2 <= 255
                       THEN [color |-> IndexedColor(value), pi |-> pi + 2]
                       ELSE [color |-> EmptyColor, pi |-> pi + 3]
                  ELSE [color |-> EmptyColor, pi |-> pi + 2]
             ELSE IF mode = 2
             THEN IF pi + 4 < count
                  THEN IF cr <= 255 /\ cg <= 255 /\ cb <= 255
                       THEN [color |-> Color(RGBColor(cr, cg, cb)), pi |-> pi + 4]
                       ELSE [color |-> EmptyColor, pi |-> pi + 5]
                  ELSE [color |-> EmptyColor, pi |-> pi + 2]
             ELSE [color |-> EmptyColor, pi |-> pi + 2]
        ELSE [color |-> EmptyColor, pi |-> pi + 1]

\* The SGR parameters that select a GraphicsRendition, which is written as its
\* parameter.
Renditions == {0, 1, 2, 3, 5, 7, 8, 9, 21, 22, 23, 24, 25, 27, 28, 29, 51, 53, 54, 55}

\* The GraphicsRendition of SGR 4 with one sub-parameter: none, single, double,
\* curly (30), dotted (31) and dashed (32) underline.
UnderlineStyle(style) ==
    IF style = 0 THEN 24
    ELSE IF style = 2 THEN 21
    ELSE IF style = 3 THEN 30
    ELSE IF style = 4 THEN 31
    ELSE IF style = 5 THEN 32
    ELSE 4

\* impl::dispatchSGR, one turn of its loop at a parameter that starts no colour
\* group: the calls it makes.
dispatchSGRParameter(seq, i) ==
    LET p == SequenceParam(seq, i)
    IN  IF p = 4
        THEN <<Call("setGraphicsRendition",
                    <<IF SequenceSubParameterCount(seq, i) = 1
                      THEN UnderlineStyle(SequenceSubparam(seq, i, 0))
                      ELSE 4>>)>>
        ELSE IF p \in Renditions THEN <<Call("setGraphicsRendition", <<p>>)>>
        ELSE IF p \in 30..37 THEN <<Call("setForegroundColor", IndexedColor(p - 30))>>
        ELSE IF p = 39 THEN <<Call("setForegroundColor", DefaultColor)>>
        ELSE IF p \in 40..47 THEN <<Call("setBackgroundColor", IndexedColor(p - 40))>>
        ELSE IF p = 49 THEN <<Call("setBackgroundColor", DefaultColor)>>
        ELSE IF p \in 90..97 THEN <<Call("setForegroundColor", BrightColor(p - 90))>>
        ELSE IF p \in 100..107 THEN <<Call("setBackgroundColor", BrightColor(p - 100))>>
        ELSE <<>>

\* The function that SGR 38, 48 and 58 call with the colour that follows.
ColorSetter(p) ==
    IF p = 38 THEN "setForegroundColor"
    ELSE IF p = 48 THEN "setBackgroundColor"
    ELSE "setUnderlineColor"

\* impl::dispatchSGR that goes on behind the parameter that starts a colour group,
\* wherever parseColor left *pi.
RECURSIVE dispatchSGRKeepsIndex(_, _, _)
dispatchSGRKeepsIndex(seq, i, calls) ==
    IF i >= SequenceParameterCount(seq) THEN calls
    ELSE IF SequenceParam(seq, i) \in {38, 48, 58}
    THEN dispatchSGRKeepsIndex(seq, i + 1,
             Append(calls, Call(ColorSetter(SequenceParam(seq, i)),
                                parseColorAt(seq, i).color)))
    ELSE dispatchSGRKeepsIndex(seq, i + 1, calls \o dispatchSGRParameter(seq, i))

\* impl::dispatchSGR, its loop from parameter i on.
RECURSIVE dispatchSGRFrom(_, _, _)
dispatchSGRFrom(seq, i, calls) ==
    IF i >= SequenceParameterCount(seq) THEN calls
    ELSE IF SequenceParam(seq, i) \in {38, 48, 58}
    THEN LET parsed == parseColorAt(seq, i)
         IN  dispatchSGRFrom(seq, parsed.pi + 1,
                 Append(calls, Call(ColorSetter(SequenceParam(seq, i)), parsed.color)))
    ELSE dispatchSGRFrom(seq, i + 1, calls \o dispatchSGRParameter(seq, i))

\* impl::dispatchSGR
dispatchSGR(seq) ==
    IF SequenceParameterCount(seq) = 0 THEN <<Call("setGraphicsRendition", <<0>>)>>
    ELSE dispatchSGRFrom(seq, 0, <<>>)

----------------------------------------------------------------------------
(* Sequencer::collect, collectLeader, param, dispatchESC, dispatchCSI and        *)
(* handleSequence.                                                               *)

\* CUP that hands the parameters on as they are, counted from 1.
CUPOneBased(seq) ==
    <<Call("moveCursorTo", <<param_or(seq, 0, 1), param_or(seq, 1, 1)>>)>>

\* Sequencer::apply, case CUP, and case HVP, which is like it.
CUP(seq) ==
    <<Call("moveCursorTo", <<param_or(seq, 0, 1) - 1,
                             param_or(seq, 1, 1) - 1>>)>>

\* Sequencer::apply, case DECERA
DECERA(seq, screen) ==
    LET top == param_or(seq, 0, origin(screen).line + 1) - 1
        left == param_or(seq, 1, origin(screen).column + 1) - 1
        size == screen.pageSize
        bottom == Min(param_or(seq, 2, size.lines), size.lines) - 1
        right == Min(param_or(seq, 3, size.columns), size.columns) - 1
    IN  <<Call("eraseArea", <<top, left, bottom, right>>)>>

\* Sequencer::apply, case DECFRA
DECFRA(seq, screen) ==
    LET ch == param_or(seq, 0, 0)
        top == param_or(seq, 0, origin(screen).line)
        left == param_or(seq, 1, origin(screen).column)
        size == screen.pageSize
        bottom == Min(param_or(seq, 2, size.lines), size.lines)
        right == Min(param_or(seq, 3, size.columns), size.columns)
    IN  <<Call("fillArea", <<ch, top, left, bottom, right>>)>>

\* Sequencer::apply, case REP. The columns up to the right margin are taken as a
\* size_t: a negative number of them is a number above every count.
REP(seq, screen) ==
    LET requestedCount == SequenceParam(seq, 0)
        columns == screen.margin.horizontal.to - screen.cursor.position.column
        availableColumns == IF columns >= 0 THEN columns ELSE columns + 2 ^ 30
        effectiveCount == Min(requestedCount, availableColumns)
    IN  IF precedingGraphicCharacter # 0
        THEN [i \in 1..effectiveCount |-> Call("writeText", <<precedingGraphicCharacter>>)]
        ELSE <<>>

\* HorizontalTabClear, in the order of its enumerators.
AllTabs == 0
UnderCursor == 1

\* impl::TBC: the call it makes and its result.
TBC(seq) ==
    IF SequenceParameterCount(seq) # 1
    THEN [calls |-> <<Call("horizontalTabClear", <<UnderCursor>>)>>, result |-> Ok]
    ELSE IF SequenceParam(seq, 0) = 0
    THEN [calls |-> <<Call("horizontalTabClear", <<UnderCursor>>)>>, result |-> Ok]
    ELSE IF SequenceParam(seq, 0) = 3
    THEN [calls |-> <<Call("horizontalTabClear", <<AllTabs>>)>>, result |-> Ok]
    ELSE [calls |-> <<>>, result |-> Invalid]

\* Sequencer::apply, case DECSCPP: resizeColumns(columnCount, clear), clear written
\* as 0 for false.
DECSCPP(seq) ==
    LET columnCount == param_or(seq, 0, 80)
    IN  IF columnCount = 80 \/ columnCount = 132
        THEN [calls |-> <<Call("resizeColumns", <<columnCount, 0>>)>>, result |-> Ok]
        ELSE [calls |-> <<>>, result |-> Invalid]

\* Sequencer::apply, case DECSNLS: resize(PageSize { lines, columns }).
DECSNLS(seq, screen) ==
    <<Call("resize", <<screen.pageSize.lines, SequenceParam(seq, 0)>>)>>

\* Sequencer::apply: the calls a function makes on the screen, the palette and the
\* screen it leaves, and its result.
apply(function, seq, palette, screen) ==
    LET done(calls, result) == [calls |-> calls, colorPalette |-> palette,
                                screenState |-> screen, result |-> result]
        modes(enable, namespace) ==
            LET set == setModes(seq, 0, enable, namespace,
                                [result |-> Ok, screenState |-> screen, calls |-> <<>>])
            IN  [calls |-> set.calls, colorPalette |-> palette,
                 screenState |-> set.screenState, result |-> set.result]
    IN  IF function \in {"SETTITLE", "SETWINTITLE"}
        THEN done(<<Call("setWindowTitle", seq.intermediateCharacters)>>, Ok)
        ELSE IF function = "SETCOLPAL"
        THEN LET parsed == queryOrSetColorPalette(seq.intermediateCharacters)
                 set == SETCOLPAL(parsed.ops, palette, <<>>)
             IN  [calls |-> set.calls, colorPalette |-> set.colorPalette,
                  screenState |-> screen,
                  result |-> IF parsed.ok THEN Ok ELSE Invalid]
        ELSE IF function = "SGR" THEN done(dispatchSGR(seq), Ok)
        ELSE IF function = "DECSM" THEN modes(TRUE, "dec")
        ELSE IF function = "DECRM" THEN modes(FALSE, "dec")
        ELSE IF function = "SM" THEN modes(TRUE, "ansi")
        ELSE IF function = "RM" THEN modes(FALSE, "ansi")
        ELSE IF function \in {"CUP", "HVP"} THEN done(CUP(seq), Ok)
        ELSE IF function = "DECERA" THEN done(DECERA(seq, screen), Ok)
        ELSE IF function = "DECFRA" THEN done(DECFRA(seq, screen), Ok)
        ELSE IF function = "REP" THEN done(REP(seq, screen), Ok)
        ELSE IF function = "TBC" THEN done(TBC(seq).calls, TBC(seq).result)
        ELSE IF function = "DECSCPP" THEN done(DECSCPP(seq).calls, DECSCPP(seq).result)
        ELSE IF function = "DECSNLS" THEN done(DECSNLS(seq, screen), Ok)
        ELSE IF function = "IND" THEN done(<<Call("index", <<>>)>>, Ok)
        ELSE IF function = "RI" THEN done(<<Call("reverseIndex", <<>>)>>, Ok)
        ELSE done(<<>>, Ok)

\* Sequencer::handleSequence with the instruction counted inside the test for a
\* known function.
handleSequenceCountsKnown(seq) ==
    \E beyond \in BeyondValues :
    LET applied == apply(functionDefinition(seq), InMemory(seq, beyond), colorPalette,
                         screenState)
    IN  /\ instructionCounter' = IF functionDefinition(seq) # "None"
                                 THEN instructionCounter + 1 ELSE instructionCounter
        /\ out' = out \o applied.calls
        /\ colorPalette' = applied.colorPalette
        /\ screenState' = applied.screenState

\* Sequencer::handleSequence and applyAndLog: a sequence that selects no function is
\* counted and nothing else.
handleSequence(seq) ==
    \E beyond \in BeyondValues :
    LET applied == apply(functionDefinition(seq), InMemory(seq, beyond), colorPalette,
                         screenState)
    IN  /\ instructionCounter' = instructionCounter + 1
        /\ IF functionDefinition(seq) # "None"
           THEN /\ out' = out \o applied.calls
                /\ colorPalette' = applied.colorPalette
                /\ screenState' = applied.screenState
           ELSE UNCHANGED <<out, colorPalette, screenState>>

\* The ApplyResult that applyAndLog sees for a sequence: Ok when it applies none.
ResultOf(seq) ==
    IF functionDefinition(seq) = "None" THEN Ok
    ELSE apply(functionDefinition(seq), InMemory(seq, 0), colorPalette,
               screenState).result

collect(ch) ==
    sequence_' = [sequence_ EXCEPT !.intermediateCharacters = Collect(@, ch)]

OnCollect(ch) ==
    /\ collect(ch)
    /\ lastEvent' = Event("collect", ch, FALSE, EmptySequence)
    /\ steps' = steps + 1
    /\ UNCHANGED <<instructionCounter, colorPalette, screenState, out, sent, textVars, dcsVars>>
    /\ UNCHANGED textureAtlas

collectLeader(leader) ==
    sequence_' = [sequence_ EXCEPT !.leaderSymbol = leader]

OnCollectLeader(leader) ==
    /\ collectLeader(leader)
    /\ lastEvent' = Event("collectLeader", leader, FALSE, EmptySequence)
    /\ steps' = steps + 1
    /\ UNCHANGED <<instructionCounter, colorPalette, screenState, out, sent, textVars, dcsVars>>
    /\ UNCHANGED textureAtlas

param(ch) ==
    sequence_' = [sequence_ EXCEPT !.parameters = Param(@, ch)]

OnParam(ch) ==
    /\ param(ch)
    /\ lastEvent' = Event("param", ch, FALSE, EmptySequence)
    /\ sent' = ParamNoCap(sent, ch)
    /\ steps' = steps + 1
    /\ UNCHANGED <<instructionCounter, colorPalette, screenState, out, textVars, dcsVars>>
    /\ UNCHANGED textureAtlas

dispatchCSI(finalChar) ==
    LET seq == [sequence_ EXCEPT !.category = "CSI", !.finalChar = finalChar]
    IN  /\ sequence_' = seq
        /\ handleSequence(seq)
        /\ lastEvent' = [Event("dispatchCSI", finalChar, TRUE, seq)
                             EXCEPT !.result = ResultOf(seq)]

OnDispatchCSI(finalChar) ==
    /\ dispatchCSI(finalChar)
    /\ steps' = steps + 1
    /\ UNCHANGED <<sent, textVars, dcsVars>>
    /\ UNCHANGED textureAtlas

dispatchESC(finalChar) ==
    LET seq == [sequence_ EXCEPT !.category = "ESC", !.finalChar = finalChar]
    IN  /\ sequence_' = seq
        /\ handleSequence(seq)
        /\ lastEvent' = [Event("dispatchESC", finalChar, TRUE, seq)
                             EXCEPT !.result = ResultOf(seq)]

OnDispatchESC(finalChar) ==
    /\ dispatchESC(finalChar)
    /\ steps' = steps + 1
    /\ UNCHANGED <<sent, textVars, dcsVars>>
    /\ UNCHANGED textureAtlas

----------------------------------------------------------------------------
(* A control sequence under construction: the events of the CSI states, in any    *)
(* order, up to its dispatch; the parser clears the sequence before the next one. *)

\* ';' ':' '1' '2'
ParamChars == {59, 58, 49, 50}

\* '$'
IntermediateChars == {36}

\* '?'
LeaderChars == {63}

\* 'm'
FinalChars == {109}

NextParam ==
    \/ steps < MaxParamEvents /\ sequence_.category = CategoryC0 /\ UNCHANGED pty
           /\ \E ch \in ParamChars : OnParam(ch)
    \/ steps < MaxParamEvents /\ sequence_.category = CategoryC0 /\ UNCHANGED pty
           /\ \E ch \in IntermediateChars : OnCollect(ch)
    \/ steps < MaxParamEvents /\ sequence_.category = CategoryC0 /\ UNCHANGED pty
           /\ \E ch \in LeaderChars : OnCollectLeader(ch)
    \/ steps < MaxParamEvents /\ sequence_.category = CategoryC0 /\ UNCHANGED pty
           /\ \E ch \in FinalChars : OnDispatchCSI(ch)
    \/ steps < MaxParamEvents /\ UNCHANGED pty /\ OnClear

SpecParam == Init /\ [][NextParam]_vars

\* C4: for any sequence of param events following a clear, the sequence under
\* construction never holds more than Sequence::MaxParameters parameters, and no
\* parameter holds more sub-parameter values than the cap the code applies to
\* them, which is Sequence::MaxParameters too.
C4_ParameterCaps ==
    /\ Len(sequence_.parameters) <= MaxParameters
    /\ \A i \in 1..Len(sequence_.parameters) :
           Len(sequence_.parameters[i]) <= MaxParameters

\* More parameters were sent than are kept, the last kept parameter is full, and a
\* further ':' was dropped.
C4_Witness ==
    /\ lastEvent.op = "param"
    /\ lastEvent.byte = 58
    /\ Len(sent) > MaxParameters
    /\ Len(sequence_.parameters) = MaxParameters
    /\ Len(Last(sequence_.parameters)) = MaxParameters
    /\ sequence_.parameters = lastEvent.preSeq.parameters

\* C5: when a CSI sequence carries more parameters than MaxParameters (none of them
\* with more sub-parameter values than fit) the excess is dropped: at dispatch the
\* retained parameters, the first MaxParameters, have exactly the values that were
\* sent for them, and the sequence is still dispatched.
C5_ExcessDropped ==
    (/\ lastEvent.op = "dispatchCSI"
     /\ Len(sent) > MaxParameters
     /\ \A i \in 1..Len(sent) : Len(sent[i]) <= MaxParameters) =>
        /\ lastEvent.didHandle
        /\ lastEvent.handled.parameters = SubSeq(sent, 1, MaxParameters)

\* More parameters than MaxParameters were sent and the sequence was dispatched
\* with MaxParameters of them.
C5_Witness ==
    /\ lastEvent.op = "dispatchCSI"
    /\ Len(sent) > MaxParameters
    /\ \A i \in 1..Len(sent) : Len(sent[i]) = 1
    /\ lastEvent.didHandle
    /\ Len(lastEvent.handled.parameters) = MaxParameters

\* C6: the intermediate string of the sequence under construction never grows
\* beyond a fixed cap; collect events past the cap are dropped.
C6_IntermediatesCapped ==
    Len(sequence_.intermediateCharacters) <= IntermediateCap

----------------------------------------------------------------------------
(* Helpers of the DCS hooks. *)

\* crispy::fromHexString: the bytes a hexadecimal string encodes; ok is false when
\* it encodes none.
fromHexString(hex) ==
    IF Len(hex) % 2 = 0 /\ \A i \in 1..Len(hex) : fromHexDigit(hex[i]) >= 0
    THEN [ok |-> TRUE,
          value |-> [i \in 1..(Len(hex) \div 2) |->
                        fromHexDigit(hex[2 * i - 1]) * 16 + fromHexDigit(hex[2 * i])]]
    ELSE [ok |-> FALSE, value |-> <<>>]

\* The settings DECRQSS knows: m, "p, SP q, "q, r, s, t, $|, *|
StatusStrings ==
    {Bytes(<<"m">>), Bytes(<<"\"", "p">>), Bytes(<<" ", "q">>), Bytes(<<"\"", "q">>),
     Bytes(<<"r">>), Bytes(<<"s">>), Bytes(<<"t">>), Bytes(<<"$", "|">>),
     Bytes(<<"*", "|">>)}

\* The calls the XTGETTCAP finalizer makes.
RECURSIVE RequestCapabilities(_)
RequestCapabilities(capsInHex) ==
    IF capsInHex = <<>> THEN <<>>
    ELSE LET cap == fromHexString(Head(capsInHex))
         IN  (IF cap.ok THEN <<Call("requestCapability", cap.value)>> ELSE <<>>)
             \o RequestCapabilities(Tail(capsInHex))

\* The DCS functions for which Sequencer::hook installs a sub-parser.
HookedFunctions == {"DECSIXEL", "STP", "DECRQSS", "XTGETTCAP"}

\* One call received by a sub-parser.
Received(call, byte, hookNo) == [call |-> call, byte |-> byte, hook |-> hookNo]

\* Sequencer::hookSixel: the image builder of a new sixel image.
hookSixel(seq) ==
    LET Pa == param_or(seq, 0, 1)
        Pb == param_or(seq, 1, 2)
        aspectVertical == IF Pa \in {7, 8, 9} THEN 1
                          ELSE IF Pa \in {5, 6} THEN 2
                          ELSE IF Pa \in {3, 4} THEN 3
                          ELSE IF Pa = 2 THEN 5
                          ELSE 2
        transparentBackground == Pb = 1
    IN  NewSixelImageBuilder(
            [width |-> MaxImageWidth, height |-> MaxImageHeight],
            aspectVertical, 1,
            IF transparentBackground THEN <<0, 0, 0, 0>> ELSE <<0, 0, 0, 255>>,
            IF usePrivateColorRegisters
            THEN NewSixelColorPalette(MaxImageRegisterCount,
                                      Max(0, Min(MaxImageRegisterCount, 16384)))
            ELSE imageColorPalette_,
            ~usePrivateColorRegisters)

\* hookSixel, hookSTP, hookDECRQSS, hookXTGETTCAP: the sub-parser made.
NewParser(funcSpec, hookNo) ==
    [kind |-> funcSpec, owner |-> hookNo, calls |-> <<>>, data_ |-> <<>>,
     state_ |-> "Ground", params_ |-> <<>>]

\* ParserExtension::start: SixelParser::start is a no-op, SimpleStringCollector::start
\* empties the string collected.
ParserStart(parser, hookNo) ==
    [parser EXCEPT !.data_ = <<>>,
                   !.calls = Append(@, Received("start", 0, hookNo))]

\* The image builder as the shared palette sees it written.
SharedPalette(builder) ==
    IF builder.kind = "Builder" /\ builder.sharedColors THEN builder.colors
    ELSE imageColorPalette_

----------------------------------------------------------------------------
(* Sequencer::hook, put, unhook. *)

hook(finalChar, funcSpec) ==
    LET hookNo == dcs.hooks + 1
        installed == IF funcSpec \in HookedFunctions THEN NewParser(funcSpec, hookNo)
                     ELSE hookedParser_
    IN  /\ instructionCounter' = instructionCounter + 1
        /\ sequence_' = [sequence_ EXCEPT !.category = "DCS", !.finalChar = finalChar]
        /\ sixelImageBuilder_' = IF funcSpec = "DECSIXEL" THEN hookSixel(sequence_')
                                 ELSE sixelImageBuilder_
        /\ hookedParser_' = IF funcSpec # "None" /\ installed.kind # "None"
                            THEN ParserStart(installed, hookNo)
                            ELSE installed
        /\ dcs' = [dcs EXCEPT !.hooks = hookNo, !.open = TRUE, !.bytes = <<>>,
                              !.func = funcSpec,
                              !.wellFormed = @ /\ ~dcs.open,
                              !.destroyed = IF funcSpec \in HookedFunctions
                                               /\ hookedParser_.kind # "None"
                                            THEN hookedParser_.calls ELSE @]
        /\ UNCHANGED <<imageColorPalette_, out>>

OnHook(finalChar, funcSpec) ==
    /\ hook(finalChar, funcSpec)
    /\ lastEvent' = Event("hook", finalChar, FALSE, EmptySequence)
    /\ steps' = steps + 1
    /\ UNCHANGED <<colorPalette, screenState, sent, usePrivateColorRegisters, textVars>>
    /\ UNCHANGED textureAtlas

put(ch) ==
    IF hookedParser_.kind = "None"
    THEN UNCHANGED <<hookedParser_, sixelImageBuilder_, imageColorPalette_>>
    ELSE IF hookedParser_.kind = "DECSIXEL"
    THEN LET r == SixelParse(hookedParser_, sixelImageBuilder_, ch)
         IN  /\ hookedParser_' =
                    [r.p EXCEPT !.calls = Append(@, Received("pass", ch, dcs.hooks))]
             /\ sixelImageBuilder_' = r.b
             /\ imageColorPalette_' = SharedPalette(r.b)
    ELSE /\ hookedParser_' =
                [hookedParser_ EXCEPT !.data_ = Append(@, ch),
                                      !.calls = Append(@, Received("pass", ch, dcs.hooks))]
         /\ UNCHANGED <<sixelImageBuilder_, imageColorPalette_>>

OnPut(ch) ==
    /\ put(ch)
    /\ dcs' = [dcs EXCEPT !.bytes = Append(@, ch)]
    /\ lastEvent' = Event("put", ch, FALSE, EmptySequence)
    /\ steps' = steps + 1
    /\ UNCHANGED <<sequence_, instructionCounter, colorPalette, screenState, out, sent,
                   usePrivateColorRegisters, textVars>>
    /\ UNCHANGED textureAtlas

\* ParserExtension::finalize: the calls the finalizer of the sub-parser makes, and
\* the image builder as the sixel parser leaves it.
Finalize(parser, builder) ==
    IF parser.kind = "DECSIXEL"
    THEN LET r == SixelDone(parser, builder)
         IN  [b |-> r.b, p |-> r.p,
              calls |-> <<Call("sixelImage",
                               <<r.b.size.width, r.b.size.height>> \o r.b.buffer)>>]
    ELSE [b |-> builder, p |-> parser,
          calls |-> IF parser.kind = "STP"
                    THEN <<Call("setTerminalProfile", parser.data_)>>
                    ELSE IF parser.kind = "DECRQSS"
                    THEN IF parser.data_ \in StatusStrings
                         THEN <<Call("requestStatusString", parser.data_)>>
                         ELSE <<>>
                    ELSE RequestCapabilities(Split(parser.data_, 59))]

unhookKeepsParser ==
    IF hookedParser_.kind # "None"
    THEN LET f == Finalize(hookedParser_, sixelImageBuilder_)
         IN  /\ out' = out \o f.calls
             /\ sixelImageBuilder_' = f.b
             /\ imageColorPalette_' = SharedPalette(f.b)
             /\ hookedParser_' =
                    [f.p EXCEPT !.calls = Append(@, Received("finalize", 0, dcs.hooks))]
             /\ dcs' = [dcs EXCEPT !.open = FALSE]
    ELSE /\ dcs' = [dcs EXCEPT !.open = FALSE]
         /\ UNCHANGED <<out, sixelImageBuilder_, imageColorPalette_, hookedParser_>>

\* The finalizer of the sixel parser hands the image over as an rvalue: the buffer
\* of the builder is left as it was or empty.
unhook ==
    IF hookedParser_.kind # "None"
    THEN LET f == Finalize(hookedParser_, sixelImageBuilder_)
         IN  /\ out' = out \o f.calls
             /\ \E moved \in BOOLEAN :
                    sixelImageBuilder_' =
                        IF hookedParser_.kind = "DECSIXEL" /\ moved
                        THEN [f.b EXCEPT !.buffer = <<>>]
                        ELSE f.b
             /\ imageColorPalette_' = SharedPalette(f.b)
             /\ hookedParser_' = NoParser
             /\ dcs' = [dcs EXCEPT !.open = FALSE,
                                   !.destroyed = Append(hookedParser_.calls,
                                                        Received("finalize", 0, dcs.hooks))]
    ELSE /\ dcs' = [dcs EXCEPT !.open = FALSE]
         /\ UNCHANGED <<out, sixelImageBuilder_, imageColorPalette_, hookedParser_>>

OnUnhook ==
    /\ unhook
    /\ lastEvent' = Event("unhook", 0, FALSE, EmptySequence)
    /\ steps' = steps + 1
    /\ UNCHANGED <<sequence_, instructionCounter, colorPalette, screenState, sent,
                   usePrivateColorRegisters, textVars>>
    /\ UNCHANGED textureAtlas

----------------------------------------------------------------------------
(* The DCS events in any order. *)

\* 'm' (a setting DECRQSS knows, and a sixel) and '~' (a sixel)
DcsBytes == {109, 126}

\* What sequence_.functionDefinition() gives in Sequencer::hook.
DcsFunctions == HookedFunctions \cup {"None"}

NextDcs ==
    \/ steps < MaxDcsEvents /\ UNCHANGED pty /\ \E f \in DcsFunctions : OnHook(113, f)
    \/ steps < MaxDcsEvents /\ UNCHANGED pty /\ \E ch \in DcsBytes : OnPut(ch)
    \/ steps < MaxDcsEvents /\ UNCHANGED pty /\ OnUnhook

SpecDcs == Init /\ [][NextDcs]_vars

\* The calls a sub-parser has received when it was started once by hook number
\* hookNo and then passed the given bytes, in order.
StartedAndPassed(bytes, hookNo) ==
    <<Received("start", 0, hookNo)>>
        \o [i \in 1..Len(bytes) |-> Received("pass", bytes[i], hookNo)]

\* C1: in every stream of events in which each hook is followed by an unhook before
\* the next hook, a hook that resolves to DECSIXEL, STP, DECRQSS or XTGETTCAP
\* installs a sub-parser that receives start exactly once, then one pass per put
\* byte in arrival order, then finalize exactly once, at unhook.
C1_HookLifecycle ==
    dcs.wellFormed =>
        /\ (dcs.open /\ dcs.func \in HookedFunctions) =>
               /\ hookedParser_.kind = dcs.func
               /\ hookedParser_.calls = StartedAndPassed(dcs.bytes, dcs.hooks)
        /\ (lastEvent.op = "unhook" /\ lastEvent.preParser.kind # "None") =>
               dcs.destroyed = Append(lastEvent.preParser.calls,
                                      Received("finalize", 0, dcs.hooks))
        /\ ~dcs.open => hookedParser_.kind = "None"

\* A second sub-parser was finalized after two bytes, in a well-formed stream.
C1_Witness ==
    /\ dcs.wellFormed
    /\ lastEvent.op = "unhook"
    /\ dcs.hooks = 2
    /\ dcs.func \in HookedFunctions
    /\ dcs.destroyed = Append(StartedAndPassed(<<109, 126>>, 2),
                              Received("finalize", 0, 2))

\* C2: for any order of hook, put and unhook events no sub-parser is installed after
\* an unhook, a sub-parser installed by one hook never receives start or bytes
\* belonging to a later hook, and bytes put while no sub-parser is installed cause
\* no call on Screen or Terminal.
C2_ParserWithinItsSequence ==
    /\ lastEvent.op = "unhook" => hookedParser_.kind = "None"
    /\ \A i \in 1..Len(hookedParser_.calls) :
           hookedParser_.calls[i].hook = hookedParser_.owner
    /\ (lastEvent.op = "put" /\ lastEvent.preParser.kind = "None") =>
           Len(out) = lastEvent.preOut

----------------------------------------------------------------------------
(* A sixel image arriving: the bytes that follow the DCS introducer, which the    *)
(* parser turns into param events, the hook at the final byte 'q', one put for    *)
(* each byte of the picture, and the unhook at the string terminator, which may   *)
(* arrive after any byte.                                                         *)

\* The picture " 1 ; 1 ; W ; H # 0 ; 2 ; 100 ; 0 ; 0 # 0 ! W ~
RedRaster(width, height) ==
    Bytes(<<"\"", "1", ";", "1", ";">>) \o Decimal(width) \o <<59>> \o Decimal(height)
        \o Bytes(<<"#", "0", ";", "2", ";", "1", "0", "0", ";", "0", ";", "0", "#", "0",
                   "!">>) \o Decimal(width) \o Bytes(<<"~">>)

SixelStreams ==
    { <<113>> \o RedRaster(width, height) :
          width \in 1..MaxImageWidth, height \in 1..Min(6, MaxImageHeight) } \cup
    { Bytes(<<"q", "~", "~">>),
      Bytes(<<"q", "#", "1", "~", "$", "-", "~">>),
      Bytes(<<"q", "!", "3", "~", "-", "!", "9", "?", "~">>),
      Bytes(<<"0", ";", "1", ";", "0", "q", "\"", "1", ";", "1", ";", "4", ";", "2",
              "#", "0", ";", "2", ";", "1", "0", "0", ";", "0", ";", "0",
              "#", "0", "!", "4", "~", "-">>),
      Bytes(<<"q", "\"", "1", ";", "1", ";", "2", ";", "7", "#", "2", "~", "-", "~",
              "~", "~">>),
      Bytes(<<"q", "\"", "1", ";", "1", ";", "9", ";", "9", "~">>),
      Bytes(<<"q", "\"", "2", ";", "1", ";", "3", ";", "1">>),
      Bytes(<<"q", "\"", "1", ";", "1", ";", "2", "~">>),
      Bytes(<<"q", "#", "3", ";", "2", ";", "0", ";", "5", "0", ";", "0", "#", "3",
              "@", "~">>),
      Bytes(<<"q", "#", "1", ";", "1", ";", "5", "0", ";", "5", "0", ";", "5", "0",
              "#", "1", "~">>),
      Bytes(<<"q", "#", "6", "~", "\"", "1", ";", "1", ";", "1", ";", "1", "$", "A">>),
      Bytes(<<"2", ";", "0", "q", "!", "2", "#", "1", "!", "\"", "x">>),
      Bytes(<<"q", "~", "-", "~", "-", "~", "$", "-">>),
      Bytes(<<"q", "~", "#", "$", "~", "#", "-", "~">>),
      Bytes(<<"q", "~", "#", "1", "$", "~", "#", "2", "-", "~">>),
      Bytes(<<"q", "~", "!", "$", "~", "!", "2", "-", "~">>),
      Bytes(<<"q", "~", "\"", "1", ";", "1", ";", "3", ";", "7", "-", "~", "$">>),
      Bytes(<<"q", "~", "\"", "1", ";", "1", ";", "3", ";", "6", "-", "~">>),
      Bytes(<<"q", "~", "\"", "1", ";", "1", "$", "~", "\"", "1", "-">>),
      Bytes(<<"q", "-", "\"", "1", ";", "1", ";", "2", ";", "3", "~", "$", "~">>),
      Bytes(<<"q", "~", "~", "~", "\"", "1", ";", "1", ";", "2", ";", "8", "~", "-",
              "~">>) }

NextSixel ==
    \/ /\ pty = <<>> /\ ~dcs.open /\ dcs.hooks < MaxImages
       /\ OnClear
       /\ \E stream \in SixelStreams : pty' = stream
    \/ /\ pty # <<>> /\ ~dcs.open /\ (isdigit(Head(pty)) \/ Head(pty) = 59)
       /\ OnParam(Head(pty))
       /\ pty' = Tail(pty)
    \/ /\ pty # <<>> /\ ~dcs.open /\ Head(pty) = 113
       /\ OnHook(113, "DECSIXEL")
       /\ pty' = Tail(pty)
    \/ /\ pty # <<>> /\ dcs.open
       /\ OnPut(Head(pty))
       /\ pty' = Tail(pty)
    \/ /\ dcs.open
       /\ OnUnhook
       /\ pty' = <<>>

InitSixel ==
    /\ screenState = NewScreen(MaxPageLines, MaxPageColumns)
    /\ InitBase
    /\ usePrivateColorRegisters \in BOOLEAN

SpecSixel == InitSixel /\ [][NextSixel]_vars

\* C3: when the DCS terminator arrives while the SixelParser is in any of its five
\* states, finalize applies the pending colour or raster parameters on leaving that
\* state, returns the parser to Ground and invokes the finalizer exactly once, so
\* exactly one image, of the size and pixels built so far, is handed to
\* Screen::sixelImage.
C3_TerminatorCommitsImage ==
    (lastEvent.op = "unhook" /\ lastEvent.preParser.kind = "DECSIXEL") =>
        LET p == lastEvent.preParser
            left == SixelLeaveState(p, lastEvent.preBuilder)
        IN  /\ Len(out) = lastEvent.preOut + 1
            /\ Last(out) = Call("sixelImage",
                                <<left.b.size.width, left.b.size.height>>
                                    \o left.b.buffer)
            /\ SixelDone(p, lastEvent.preBuilder).p.state_ = "Ground"
            /\ hookedParser_.kind = "None"
            /\ (p.state_ = "RasterSettings" /\ Len(p.params_) = 4) =>
                   /\ Last(out).args[1] = Min(p.params_[3], MaxImageWidth)
                   /\ Last(out).args[2] = Min(p.params_[4], MaxImageHeight)
                   /\ Len(Last(out).args) = 2 + Last(out).args[1] * Last(out).args[2] * 4
            /\ (p.state_ = "ColorParam" /\ Len(p.params_) = 1) =>
                   sixelImageBuilder_.currentColor
                       = p.params_[1] % Len(sixelImageBuilder_.colors.palette)
            /\ ~(p.state_ = "RasterSettings" /\ Len(p.params_) = 4) =>
                   /\ Last(out).args[1] = lastEvent.preBuilder.size.width
                   /\ Last(out).args[2] = lastEvent.preBuilder.size.height

\* The terminator arrived with the raster attributes still pending, and the image
\* handed over has the size they give.
C3_Witness ==
    /\ lastEvent.op = "unhook"
    /\ lastEvent.preParser.kind = "DECSIXEL"
    /\ lastEvent.preParser.state_ = "RasterSettings"
    /\ lastEvent.preParser.params_ = <<2, 1, 3, 1>>
    /\ Len(out) = 1
    /\ out[1].op = "sixelImage"
    /\ out[1].args[1] = 3
    /\ out[1].args[2] = 1

----------------------------------------------------------------------------
(* Sequencer::startOSC, putOSC and dispatchOSC. *)

startOSC ==
    sequence_' = [sequence_ EXCEPT !.category = "OSC"]

OnStartOSC ==
    /\ startOSC
    /\ lastEvent' = Event("startOSC", 0, FALSE, EmptySequence)
    /\ sent' = <<>>
    /\ steps' = steps + 1
    /\ UNCHANGED <<instructionCounter, colorPalette, screenState, out, textVars, dcsVars>>
    /\ UNCHANGED textureAtlas

\* Sequencer::putOSC without the length check.
putOSCUnbounded(ch) ==
    sequence_' = [sequence_ EXCEPT !.intermediateCharacters = Append(@, ch)]

putOSC(ch) ==
    IF Len(sequence_.intermediateCharacters) + 1 < MaxOscLength
    THEN sequence_' = [sequence_ EXCEPT !.intermediateCharacters = Append(@, ch)]
    ELSE UNCHANGED sequence_

\* sent: the payload bytes since startOSC, whether stored or not.
OnPutOSC(ch) ==
    /\ putOSC(ch)
    /\ lastEvent' = Event("putOSC", ch, FALSE, EmptySequence)
    /\ sent' = Append(sent, ch)
    /\ steps' = steps + 1
    /\ UNCHANGED <<instructionCounter, colorPalette, screenState, out, textVars, dcsVars>>
    /\ UNCHANGED textureAtlas

dispatchOSC ==
    \E code \in parseOSCCodes(sequence_.intermediateCharacters) :
    LET parsed == parseOSC(sequence_.intermediateCharacters)
        seq == [sequence_ EXCEPT
                   !.parameters = Append(@, <<code>>),
                   !.intermediateCharacters = SubSeq(@, parsed.skipCount + 1, Len(@))]
    IN  /\ handleSequence(seq)
        /\ clear
        /\ lastEvent' = [Event("dispatchOSC", 0, TRUE, seq) EXCEPT !.result = ResultOf(seq)]

OnDispatchOSC ==
    /\ dispatchOSC
    /\ steps' = steps + 1
    /\ UNCHANGED <<precedingGraphicCharacter, printed, sent, dcsVars>>
    /\ UNCHANGED textureAtlas

----------------------------------------------------------------------------
(* Operating system commands arriving: the payload that follows the OSC           *)
(* introducer, one putOSC for each of its bytes, and the dispatchOSC at the       *)
(* string terminator, which may arrive after any byte.                            *)

OscStreams ==
    { Bytes(<<"4", ";", "1", ";", "?">>),
      Bytes(<<"4", ";", "2", ";", "?", ";", "1", ";", "?">>),
      Bytes(<<"4", ";", "1", ";", "#", "1", "2", "a", "b", "F", "f", ";", "1", ";", "?">>),
      Bytes(<<"4", ";", "7", ";", "?", ";", "x", ";", "2", ";", "?">>),
      Bytes(<<"4", ";", "1", ";", "?", ";", "2", ";", "?", ";", "3", ";", "?", ";",
              "4", ";", "?", ";", "5", ";", "?", ";", "6", ";", "?">>),
      Bytes(<<"4", ";", "2", "5", "5", ";", "?">>),
      Bytes(<<"4", ";", "2", "5", "6", ";", "?">>),
      Bytes(<<"4", ";", "1", ";", "#", "f", "f", "f", ";", "2", ";", "x", ";", "3",
              ";", "?">>),
      Bytes(<<"4", ";", "1", ";", "?", ";", "x", ";", "?", ";", "2", ";", "?">>),
      Bytes(<<"2", ";", "a", ";", "b">>),
      Bytes(<<"L", "x">>) }

NextOsc ==
    \/ /\ pty = <<>> /\ sequence_.category # "OSC" /\ instructionCounter < MaxOscStrings
       /\ OnClear
       /\ \E stream \in OscStreams : pty' = stream
    \/ /\ pty # <<>> /\ sequence_.category # "OSC"
       /\ OnStartOSC
       /\ UNCHANGED pty
    \/ /\ pty # <<>> /\ sequence_.category = "OSC"
       /\ OnPutOSC(Head(pty))
       /\ pty' = Tail(pty)
    \/ /\ sequence_.category = "OSC"
       /\ OnDispatchOSC
       /\ pty' = <<>>

SpecOsc == Init /\ [][NextOsc]_vars

\* The first n elements of a sequence.
Prefix(seq, n) == SubSeq(seq, 1, Min(Len(seq), n))

\* C7: for putOSC events the stored OSC payload length stays below MaxOscLength;
\* bytes beyond the cap are dropped, the bytes before it are kept as sent, and
\* dispatchOSC still dispatches the truncated payload and then leaves the sequence
\* state empty.
C7_OscPayloadCapped ==
    /\ Len(sequence_.intermediateCharacters) < MaxOscLength
    /\ sequence_.category = "OSC" =>
           sequence_.intermediateCharacters = Prefix(sent, MaxOscLength - 1)
    /\ lastEvent.op = "dispatchOSC" =>
           LET truncated == Prefix(sent, MaxOscLength - 1)
               parsed == parseOSC(truncated)
           IN  /\ lastEvent.preSeq.intermediateCharacters = truncated
               /\ lastEvent.didHandle
               /\ lastEvent.handled.category = "OSC"
               /\ lastEvent.handled.parameters = <<<<parsed.code>>>>
               /\ lastEvent.handled.intermediateCharacters
                      = SubSeq(truncated, parsed.skipCount + 1, Len(truncated))
               /\ sequence_ = EmptySequence

\* A payload longer than the cap was dispatched, and its stored part was answered.
C7_Witness ==
    /\ lastEvent.op = "dispatchOSC"
    /\ Len(sent) > MaxOscLength
    /\ Len(lastEvent.preSeq.intermediateCharacters) = MaxOscLength - 1
    /\ Len(out) > lastEvent.preOut
    /\ sequence_ = EmptySequence

\* The palette indexes a payload of OSC 4 queries, left to right, up to its end or
\* its first malformed piece.
RECURSIVE QueriedIndexes(_)
QueriedIndexes(pieces) ==
    IF Len(pieces) < 2 THEN <<>>
    ELSE LET index == to_integer(pieces[1])
             rest == SubSeq(pieces, 3, Len(pieces))
         IN  IF ~(0 <= index /\ index <= 255) THEN <<>>
             ELSE IF pieces[2] = <<63>> THEN <<index>> \o QueriedIndexes(rest)
             ELSE IF parseColor(pieces[2]).ok THEN QueriedIndexes(rest)
             ELSE <<>>

\* C10: replies are emitted in the order they are generated: an OSC 4 payload with
\* several "index;?" queries yields one reply for each query, left to right, and the
\* replies of successive sequences follow one another in dispatch order.
C10_RepliesInOrder ==
    (lastEvent.op = "dispatchOSC"
         /\ lastEvent.handled.parameters = <<<<4>>>>) =>
        LET queries == QueriedIndexes(Split(lastEvent.handled.intermediateCharacters, 59))
            prefix(index) == <<27, 93, 52, 59>> \o Decimal(index) \o <<59>>
        IN  /\ Len(out) = lastEvent.preOut + Len(queries)
            /\ SubSeq(out, 1, lastEvent.preOut) = lastEvent.preCalls
            /\ \A k \in 1..Len(queries) :
                   LET reply == out[lastEvent.preOut + k]
                   IN  /\ reply.op = "reply"
                       /\ Len(reply.args) > Len(prefix(queries[k]))
                       /\ SubSeq(reply.args, 1, Len(prefix(queries[k])))
                              = prefix(queries[k])

\* A second command queried entries 2 and 1, in this order, after a first command
\* had been answered.
C10_Witness ==
    /\ lastEvent.op = "dispatchOSC"
    /\ lastEvent.preOut > 0
    /\ lastEvent.preCalls[1].op = "reply"
    /\ Len(out) = lastEvent.preOut + 2
    /\ SubSeq(out[Len(out) - 1].args, 1, 6) = <<27, 93, 52, 59, 50, 59>>
    /\ SubSeq(out[Len(out)].args, 1, 6) = <<27, 93, 52, 59, 49, 59>>

----------------------------------------------------------------------------
(* Escape sequences, control sequences and operating system commands arriving,   *)
(* one string after another. A string is the bytes that follow an ESC; it may     *)
(* hold a further ESC and the sequence that follows it. The introducer of a       *)
(* control sequence ('[') or of an operating system command (']') stays at the    *)
(* head of pty while the bytes behind it are read; BEL ends an operating system   *)
(* command.                                                                       *)

\* ESC [ ? n h followed by ESC [ ? k l, without the first ESC.
SetThenReset(n, k) ==
    <<91, 63>> \o Decimal(n) \o <<104, 27, 91, 63>> \o Decimal(k) \o <<108>>

DispatchStreams ==
    { Bytes(<<"[", "?", "6", "h">>),
      Bytes(<<"[", "?", "6", "l">>),
      Bytes(<<"[", "?", "6", ";", "9", "9", "h">>),
      Bytes(<<"[", "?", "9", "9", ";", "6", "h">>),
      Bytes(<<"[", "?", "6", ";", "9", "9", ";", "4", "7", "h">>),
      Bytes(<<"[", "?", "6", ";", "9", "9", ";", "4", "7", "l">>),
      Bytes(<<"[", "4", "h">>),
      Bytes(<<"[", "4", ";", "2", "l">>),
      Bytes(<<"[", "2", ";", "4", "h">>),
      Bytes(<<"[", "?", "6", "y">>),
      Bytes(<<"[", "1", "m">>),
      Bytes(<<"[", "H">>),
      Bytes(<<"[", ";", "5", "H">>),
      Bytes(<<"[", "2", ";", "3", "H">>),
      Bytes(<<"[", "2", "f">>),
      Bytes(<<"[", ";", "5", "f">>),
      Bytes(<<"D">>),
      Bytes(<<"Q">>),
      Bytes(<<"]", "6", ";", "a">>) \o <<7>>,
      Bytes(<<"]", "2", ";", "a">>) \o <<7>>,
      Bytes(<<"[", "?", "6", "y">>) \o <<27>> \o Bytes(<<"[", "?", "6", "h">>),
      Bytes(<<"[", "?", "9", "9", "h">>) \o <<27>> \o Bytes(<<"[", "?", "6", "h">>),
      Bytes(<<"]", "6", ";", "a">>) \o <<7, 27>> \o Bytes(<<"D">>),
      SetThenReset(47, 1047) }
    \cup { SetThenReset(n, n) : n \in DECModeNumbers }

\* pty without the byte behind its head.
Rest(bytes) == <<Head(bytes)>> \o SubSeq(bytes, 3, Len(bytes))

NextDispatch ==
    \/ /\ pty = <<>> /\ instructionCounter < MaxSequences
       /\ OnClear
       /\ \E stream \in DispatchStreams : pty' = stream
    \/ /\ pty # <<>> /\ Head(pty) = 27
       /\ OnClear
       /\ pty' = Tail(pty)
    \/ /\ Len(pty) >= 2 /\ pty[1] = 91 /\ pty[2] = 63
       /\ OnCollectLeader(pty[2])
       /\ pty' = Rest(pty)
    \/ /\ Len(pty) >= 2 /\ pty[1] = 91 /\ (isdigit(pty[2]) \/ pty[2] \in {58, 59})
       /\ OnParam(pty[2])
       /\ pty' = Rest(pty)
    \/ /\ Len(pty) >= 2 /\ pty[1] = 91 /\ pty[2] \in 64..126
       /\ OnDispatchCSI(pty[2])
       /\ pty' = SubSeq(pty, 3, Len(pty))
    \/ /\ pty # <<>> /\ Head(pty) \in (48..126) \ {91, 93}
       /\ OnDispatchESC(Head(pty))
       /\ pty' = Tail(pty)
    \/ /\ pty # <<>> /\ Head(pty) = 93 /\ sequence_.category # "OSC"
       /\ OnStartOSC
       /\ UNCHANGED pty
    \/ /\ Len(pty) >= 2 /\ pty[1] = 93 /\ sequence_.category = "OSC" /\ pty[2] # 7
       /\ OnPutOSC(pty[2])
       /\ pty' = Rest(pty)
    \/ /\ Len(pty) >= 2 /\ pty[1] = 93 /\ sequence_.category = "OSC" /\ pty[2] = 7
       /\ OnDispatchOSC
       /\ pty' = SubSeq(pty, 3, Len(pty))

\* The screens a string may meet: origin mode and the alternate screen are enabled
\* or not.
InitDispatch ==
    /\ LET screen == NewScreen(MaxPageLines, MaxPageColumns)
       IN  screenState \in { screen, setMode(screen, "dec", 6, TRUE),
                             setMode(screen, "dec", 47, TRUE),
                             setMode(setMode(screen, "dec", 6, TRUE), "dec", 47, TRUE) }
    /\ InitBase
    /\ usePrivateColorRegisters = FALSE

SpecDispatch == InitDispatch /\ [][NextDispatch]_vars

\* C11: a dispatched ESC, CSI or OSC sequence that selects no function makes no call
\* on the screen or the terminal and sends no reply; it changes the instruction
\* counter, which it raises by one, and neither the palette nor the screen nor the
\* hooked parser, so that the sequence after it meets the state the one before it
\* left.
C11_UnknownSequenceIsNoOp ==
    /\ (lastEvent.didHandle /\ functionDefinition(lastEvent.handled) = "None") =>
           /\ out = lastEvent.preCalls
           /\ colorPalette = lastEvent.prePalette
           /\ screenState = lastEvent.preScreen
           /\ hookedParser_ = lastEvent.preParser
           /\ sixelImageBuilder_ = lastEvent.preBuilder
           /\ instructionCounter = lastEvent.preCounter + 1
    /\ (lastEvent.didHandle /\ instructionCounter >= 2
            /\ functionDefinition(lastEvent.previous.handled) = "None") =>
           lastEvent.preScreen = lastEvent.previous.preScreen

\* An escape sequence that selects no function was followed by an operating system
\* command that selects none: both were counted and nothing was called.
C11_Witness ==
    /\ lastEvent.op = "dispatchOSC"
    /\ functionDefinition(lastEvent.handled) = "None"
    /\ lastEvent.previous.handled.category = "ESC"
    /\ functionDefinition(lastEvent.previous.handled) = "None"
    /\ instructionCounter = 2
    /\ out = <<>>

\* What a dispatched DECSM, DECRM, SM or RM leaves: every mode number of its list
\* that is known is set or reset, whatever stands before or after it, the other
\* modes are as before, the sequence is counted, and its result is Ok when every
\* number is known, Invalid when a number of DECSM or DECRM is not, and unknownAnsi
\* when a number of SM or RM is not.
ModesApplied(unknownAnsi) ==
    LET seq == lastEvent.handled
        function == functionDefinition(seq)
        numbers == { seq.parameters[i][1] : i \in 1..Len(seq.parameters) }
        dec == function \in {"DECSM", "DECRM"}
        known == IF dec THEN { toDECMode(n) : n \in numbers } \ {-1}
                 ELSE numbers \cap {4}
        allKnown == IF dec THEN \A n \in numbers : toDECMode(n) # -1
                    ELSE numbers \subseteq {4}
        before == lastEvent.preScreen.modes
        changed == IF dec THEN "dec" ELSE "ansi"
        kept == IF dec THEN "ansi" ELSE "dec"
    IN  (lastEvent.didHandle /\ function \in {"DECSM", "DECRM", "SM", "RM"}) =>
            /\ screenState.modes[changed] =
                   IF function \in {"DECSM", "SM"} THEN before[changed] \cup known
                   ELSE before[changed] \ known
            /\ screenState.modes[kept] = before[kept]
            /\ instructionCounter = lastEvent.preCounter + 1
            /\ lastEvent.result = IF allKnown THEN Ok
                                  ELSE IF dec THEN Invalid
                                  ELSE unknownAnsi

\* C12, as claimed: DECSM, DECRM, SM and RM set or reset every known mode number of
\* their list whatever stands before or after it, and their result is Invalid as
\* soon as one number is unknown.
C12_InvalidParameterFailsItself == ModesApplied(Invalid)

\* C12, amended: DECSM, DECRM, SM and RM set or reset every known mode number of
\* their list whatever stands before or after it; the result is the worst of the
\* results of the parameters, which is Invalid for DECSM and DECRM and Unsupported
\* for SM and RM as soon as one number is unknown.
C12_WorstResultOfTheParameters == ModesApplied(Unsupported)

\* DECSM 6;99;47 on a screen with neither mode: both were enabled and the result
\* is Invalid.
C12_Witness ==
    /\ lastEvent.op = "dispatchCSI"
    /\ functionDefinition(lastEvent.handled) = "DECSM"
    /\ lastEvent.handled.parameters = << <<6>>, <<99>>, <<47>> >>
    /\ lastEvent.preScreen.modes.dec = {}
    /\ screenState.modes.dec = {6, 47}
    /\ lastEvent.result = Invalid

\* DECSET(n) was dispatched and DECRST(n) after it, for a mode number n that
\* toDECMode knows.
SetThenResetDispatched ==
    /\ lastEvent.didHandle
    /\ functionDefinition(lastEvent.handled) = "DECRM"
    /\ functionDefinition(lastEvent.previous.handled) = "DECSM"
    /\ Len(lastEvent.handled.parameters) = 1
    /\ lastEvent.handled.parameters = lastEvent.previous.handled.parameters
    /\ toDECMode(lastEvent.handled.parameters[1][1]) # -1

\* C13, as claimed: DECSET(n) followed by DECRST(n) returns the modes to what they
\* were before the two, for every known n and whatever the modes were.
C13_SetThenResetRestores ==
    SetThenResetDispatched => screenState.modes = lastEvent.previous.preScreen.modes

\* C13, amended: DECSET(n) followed by DECRST(n) leaves the mode of n reset and
\* every other mode as it was before the two; the modes are what they were exactly
\* when the mode of n was reset before.
C13_SetThenResetLeavesReset ==
    SetThenResetDispatched =>
        LET before == lastEvent.previous.preScreen.modes
            mode == toDECMode(lastEvent.handled.parameters[1][1])
        IN  /\ screenState.modes.dec = before.dec \ {mode}
            /\ screenState.modes.ansi = before.ansi
            /\ (screenState.modes = before) <=> (mode \notin before.dec)

\* DECSET(1049) and DECRST(1049) on a screen in origin mode: the modes are as before.
C13_Witness ==
    /\ SetThenResetDispatched
    /\ lastEvent.handled.parameters = << <<1049>> >>
    /\ lastEvent.previous.preScreen.modes.dec = {6}
    /\ screenState.modes.dec = {6}

----------------------------------------------------------------------------
(* SGR: the parameter lists that param leaves in the sequence, each some plain   *)
(* parameters, a colour group and further plain parameters, and their dispatch.   *)

\* The values of a colour component, and of a colour index.
ColorComponents == {0, 255, 256}

ColorIndexes == {0, 7, 255, 256, 300}

\* Bold; nothing; bold; italic and inverse; blinking and bold; faint, bold, italic
\* and inverse.
PlainBefore == { <<>>, << <<1>> >> }

PlainAfter ==
    { <<>>, << <<1>> >>, << <<3>>, <<7>> >>, << <<5>>, <<1>> >>,
      << <<2>>, <<1>>, <<3>>, <<7>> >> }

\* The colour groups: "rgb;" is 38;2;R;G;B, "rgb:" is 38:2:R:G:B, "rgb::" is
\* 38:2::R:G:B, "indexed;" is 38;5;N, "indexed:" is 38:5:N, "cmy" is 38:3:F:C:M:Y
\* and "cmyk" is 38:4:F:C:M:Y:K, and so for 48 and 58; "none" is no group. The
\* truncated groups: "alone" is 38, "rgb;1" is 38;2;1, "indexed;0" is 38;5 and
\* "indexed:0" is 38:5.
ColorGroups ==
    { [form |-> form, selector |-> s, values |-> <<r, g, b>>] :
          form \in {"rgb;", "rgb:", "rgb::"}, s \in {38, 48, 58},
          r \in ColorComponents, g \in ColorComponents, b \in ColorComponents }
    \cup { [form |-> form, selector |-> s, values |-> <<n>>] :
               form \in {"indexed;", "indexed:"}, s \in {38, 48, 58}, n \in ColorIndexes }
    \cup { [form |-> "cmy", selector |-> s, values |-> <<1, 10, 20, 30>>] :
               s \in {38, 48, 58} }
    \cup { [form |-> "cmyk", selector |-> s, values |-> <<1, 10, 20, 30, 40>>] :
               s \in {38, 48, 58} }
    \cup { [form |-> form, selector |-> s, values |-> <<>>] :
               form \in {"alone", "rgb;1", "indexed;0", "indexed:0"}, s \in {38, 48, 58} }
    \cup { [form |-> "none", selector |-> 0, values |-> <<>>] }

\* The parameters that Sequencer::param builds for a colour group.
GroupParameters(group) ==
    LET single(values) == [k \in 1..Len(values) |-> <<values[k]>>]
    IN  IF group.form = "rgb;" THEN single(<<group.selector, 2>> \o group.values)
        ELSE IF group.form = "rgb:" THEN << <<group.selector, 2>> \o group.values >>
        ELSE IF group.form = "rgb::" THEN << <<group.selector, 2, 0>> \o group.values >>
        ELSE IF group.form = "indexed;" THEN single(<<group.selector, 5>> \o group.values)
        ELSE IF group.form = "indexed:" THEN << <<group.selector, 5>> \o group.values >>
        ELSE IF group.form = "cmy" THEN << <<group.selector, 3>> \o group.values >>
        ELSE IF group.form = "cmyk" THEN << <<group.selector, 4>> \o group.values >>
        ELSE IF group.form = "alone" THEN << <<group.selector>> >>
        ELSE IF group.form = "rgb;1" THEN single(<<group.selector, 2, 1>>)
        ELSE IF group.form = "indexed;0" THEN single(<<group.selector, 5>>)
        ELSE IF group.form = "indexed:0" THEN << <<group.selector, 5>> >>
        ELSE <<>>

\* sent: the plain parameters before the group, the group, and those after it.
InitSgr ==
    /\ screenState = NewScreen(MaxPageLines, MaxPageColumns)
    /\ InitSequencer
    /\ textureAtlas = NoAtlas
    /\ usePrivateColorRegisters = FALSE
    /\ \E before \in PlainBefore, group \in ColorGroups, after \in PlainAfter :
           /\ sent = [before |-> before, group |-> group, after |-> after]
           /\ sequence_ = [EmptySequence EXCEPT
                               !.parameters = before \o GroupParameters(group) \o after]

NextSgr ==
    /\ sequence_.category = CategoryC0
    /\ UNCHANGED pty
    /\ OnDispatchCSI(109)

SpecSgr == InitSgr /\ [][NextSgr]_vars

\* The calls of the last event.
NewCalls == SubSeq(out, lastEvent.preOut + 1, Len(out))

\* The calls that plain parameters make: each selects its GraphicsRendition.
Plain(parameters) ==
    [k \in 1..Len(parameters) |-> Call("setGraphicsRendition", <<parameters[k][1]>>)]

\* A call that sets a colour to the empty Color{}.
SetsEmptyColor(call) ==
    /\ call.op \in {"setForegroundColor", "setBackgroundColor", "setUnderlineColor"}
    /\ call.args = EmptyColor

SetsSomething(call) == ~SetsEmptyColor(call)

\* The SGR of the model was dispatched with a colour group of one of these forms.
DispatchedGroup(forms) == lastEvent.op = "dispatchCSI" /\ sent.group.form \in forms

\* C14: an RGB colour group of SGR 38, 48 or 58 with a component above 255 is
\* invalid for itself only: it sets no colour (setting the empty Color{} is taken
\* for setting none), and the parameters before and after it are applied as they
\* are when the group is absent.
C14_OutOfRangeGroupOnly ==
    (DispatchedGroup({"rgb;", "rgb:", "rgb::"})
         /\ \E k \in 1..3 : sent.group.values[k] > 255) =>
        SelectSeq(NewCalls, SetsSomething) = Plain(sent.before) \o Plain(sent.after)

\* C15: SGR 38;2;R;G;B with R, G and B at most 255 sets the foreground colour to
\* the RGB colour and makes no other call for its five parameters: the parameters
\* before and after it are applied as they are without it; 48 does so for the
\* background and 58 for the underline colour.
C15_RGBSetsColor ==
    (DispatchedGroup({"rgb;"}) /\ \A k \in 1..3 : sent.group.values[k] <= 255) =>
        NewCalls = Plain(sent.before)
                   \o <<Call(CASE sent.group.selector = 38 -> "setForegroundColor"
                               [] sent.group.selector = 48 -> "setBackgroundColor"
                               [] sent.group.selector = 58 -> "setUnderlineColor",
                             <<4>> \o sent.group.values)>>
                   \o Plain(sent.after)

\* Bold, 48;2;0;255;255 and italic, inverse were dispatched: bold, one background
\* colour, italic and inverse were set.
C15_Witness ==
    /\ DispatchedGroup({"rgb;"})
    /\ sent.group.selector = 48
    /\ sent.group.values = <<0, 255, 255>>
    /\ Len(sent.before) = 1
    /\ Len(sent.after) = 2
    /\ Len(NewCalls) = 4
    /\ NewCalls[2] = Call("setBackgroundColor", <<4, 0, 255, 255>>)

\* C16: an indexed colour group N of SGR 38, 48 or 58, written 38;5;N or 38:5:N,
\* sets the indexed colour N when N is at most 255, and no indexed colour at all
\* when N is above 255, in either form.
C16_IndexedRange ==
    DispatchedGroup({"indexed;", "indexed:"}) =>
        LET n == sent.group.values[1]
            group == NewCalls[Len(sent.before) + 1]
        IN  IF n <= 255
            THEN /\ Len(NewCalls) > Len(sent.before)
                 /\ group.args = <<2, n>>
            ELSE \A k \in 1..Len(NewCalls) :
                     NewCalls[k].op # "setGraphicsRendition" => NewCalls[k].args[1] # 2

\* C17: a CMY or CMYK colour group sets no colour (setting the empty Color{} is
\* taken for setting none) and takes its own parameter only: the parameters after
\* it are applied as they are without it.
C17_CMYIgnored ==
    DispatchedGroup({"cmy", "cmyk"}) =>
        SelectSeq(NewCalls, SetsSomething) = Plain(sent.before) \o Plain(sent.after)

\* C30: SGR parsing ends and reads no parameter index at or above parameterCount
\* and no sub-parameter index at or above the sub-parameter count of its parameter,
\* truncated colour groups included: the calls an SGR makes are those its
\* parameters determine, whatever lies behind them.
C30_SGRReadsWithinParameters ==
    (lastEvent.op = "dispatchCSI" /\ functionDefinition(lastEvent.handled) = "SGR") =>
        \A beyond \in BeyondValues :
            NewCalls = dispatchSGR(InMemory(lastEvent.handled, beyond))

----------------------------------------------------------------------------
(* The code and the data of an operating system command. *)

\* The payload that the last dispatchOSC met, the code it dispatched and the data
\* it handed on.
OscPayload == lastEvent.preSeq.intermediateCharacters

OscCode == Last(lastEvent.handled.parameters)[1]

OscData == lastEvent.handled.intermediateCharacters

----------------------------------------------------------------------------
(* Screen::clampCoordinate and Screen::toRealCoordinate, on any screen. *)

\* Screens with a page of up to MaxPageLines lines and MaxPageColumns columns; the
\* margin is the page, or a range inside it of at least two lines or two columns
\* (as DECSTBM and DECSLRM set one); origin mode is reset or set.
CoordScreens ==
    {[NewScreen(lines, columns) EXCEPT
          !.margin = [vertical |-> [from |-> top, to |-> bottom],
                      horizontal |-> [from |-> left, to |-> right]],
          !.cursor.originMode = originMode,
          !.modes.dec = IF originMode THEN {6} ELSE {}] :
        <<lines, columns, top, bottom, left, right, originMode>> \in
            {s \in (1..MaxPageLines) \X (1..MaxPageColumns)
                   \X (0..MaxPageLines - 1) \X (0..MaxPageLines - 1)
                   \X (0..MaxPageColumns - 1) \X (0..MaxPageColumns - 1) \X BOOLEAN :
                /\ s[4] < s[1] /\ (s[3] < s[4] \/ (s[3] = 0 /\ s[4] = s[1] - 1))
                /\ s[6] < s[2] /\ (s[5] < s[6] \/ (s[5] = 0 /\ s[6] = s[2] - 1))}}

\* sent holds the coordinate to resolve, from one cell before the page to one
\* cell behind the largest page.
InitCoord ==
    /\ screenState \in CoordScreens
    /\ sequence_ = EmptySequence
    /\ InitSequencer
    /\ textureAtlas = NoAtlas
    /\ usePrivateColorRegisters = FALSE
    /\ \E line \in -1..MaxPageLines + 1, column \in -1..MaxPageColumns + 1 :
           sent = [coord |-> CellLocation(line, column)]

\* toRealCoordinate(clampCoordinate(coord)) and contains(coord): sent receives the
\* cell, real, and the answer, contained.
NextCoord ==
    /\ lastEvent.op = "none"
    /\ sent' = [coord |-> sent.coord,
                real |-> toRealCoordinate(screenState,
                                          clampCoordinate(screenState, sent.coord)),
                contained |-> contains(screenState, sent.coord)]
    /\ lastEvent' = Event("toRealCoordinate", 0, FALSE, EmptySequence)
    /\ UNCHANGED <<sequence_, utf8DecoderState, instructionCounter,
                   precedingGraphicCharacter, colorPalette, screenState, out, pty,
                   printed, steps, dcsVars>>
    /\ UNCHANGED textureAtlas

SpecCoord == InitCoord /\ [][NextCoord]_vars

\* C19: for every coordinate, toRealCoordinate(clampCoordinate(coordinate)) is a
\* cell of the page when origin mode is reset and a cell of the margin rectangle
\* when origin mode is set, and with origin mode set the coordinate (0, 0) is the
\* top left cell of the margin.
C19_ClampedCoordinateIsValid ==
    lastEvent.op = "toRealCoordinate" =>
        LET real == sent.real
            margin == screenState.margin
        IN  IF ~screenState.cursor.originMode
            THEN /\ real.line \in 0..screenState.pageSize.lines - 1
                 /\ real.column \in 0..screenState.pageSize.columns - 1
            ELSE /\ real.line \in margin.vertical.from..margin.vertical.to
                 /\ real.column \in margin.horizontal.from..margin.horizontal.to
                 /\ sent.coord = CellLocation(0, 0) =>
                        real = CellLocation(margin.vertical.from, margin.horizontal.from)

\* C32: Screen::contains is true exactly for the coordinates of the visible
\* screen area, those with 0 <= line < pageSize.lines and
\* 0 <= column < pageSize.columns.
C32_ContainsVisibleArea ==
    lastEvent.op = "toRealCoordinate" =>
        (sent.contained <=>
             /\ sent.coord.line \in 0..screenState.pageSize.lines - 1
             /\ sent.coord.column \in 0..screenState.pageSize.columns - 1)

----------------------------------------------------------------------------
(* The C0 control codes of the execute event. *)

\* C20: execute maps the C0 control codes directly: BEL calls bell, BS backspace,
\* HT moves to the next tab stop, LF, VT and FF perform an index (for LF the
\* linefeed of the Screen is taken as one), CR moves to column 0, SO and SI make
\* the call that shifts the charset, and every other control code makes no call.
C20_ExecuteMapsC0 ==
    lastEvent.op = "execute" =>
        LET c0 == lastEvent.byte
        IN  CASE c0 = 7 -> NewCalls = <<Call("bell", <<>>)>>
              [] c0 = 8 -> NewCalls = <<Call("backspace", <<>>)>>
              [] c0 = 9 -> NewCalls = <<Call("moveCursorToNextTab", <<>>)>>
              [] c0 = 10 -> NewCalls \in {<<Call("index", <<>>)>>, <<Call("linefeed", <<>>)>>}
              [] c0 \in {11, 12} -> NewCalls = <<Call("index", <<>>)>>
              [] c0 = 13 -> NewCalls = <<Call("moveCursorToBeginOfLine", <<>>)>>
              [] c0 \in {14, 15} -> Len(NewCalls) = 1
              [] OTHER -> NewCalls = <<>>

----------------------------------------------------------------------------
(* CUP and HVP. *)

\* The value sent as parameter k (from 1) of the sequence dispatched last, 1 when
\* it was omitted.
SentOrOne(k) == IF k <= Len(sent) /\ sent[k][1] # 0 THEN sent[k][1] ELSE 1

\* C21: CUP (CSI Pl ; Pc H) and HVP (CSI Pl ; Pc f) make the one call
\* moveCursorTo(Pl - 1, Pc - 1), each omitted parameter taken as 1: with no
\* parameter the call is moveCursorTo(0, 0).
C21_CursorPositionDefaults ==
    (/\ lastEvent.op = "dispatchCSI"
     /\ lastEvent.byte \in {72, 102}
     /\ lastEvent.handled.leaderSymbol = 0) =>
        /\ NewCalls = <<Call("moveCursorTo", <<SentOrOne(1) - 1, SentOrOne(2) - 1>>)>>
        /\ sent = <<>> => NewCalls = <<Call("moveCursorTo", <<0, 0>>)>>
        /\ lastEvent.result = Ok

\* CSI ; 5 H was dispatched and called moveCursorTo(0, 4).
C21_Witness ==
    /\ lastEvent.op = "dispatchCSI"
    /\ lastEvent.byte = 72
    /\ sent = <<<<0>>, <<5>>>>
    /\ NewCalls = <<Call("moveCursorTo", <<0, 4>>)>>

----------------------------------------------------------------------------
(* DECRQSS. *)

\* C22: the unhook of a DECRQSS request makes exactly one call that replies: for a
\* setting that DECRQSS knows the request of its status string, which replies
\* DCS 1 $ r value ST, and for any other setting a call that replies DCS 0 $ r ST.
C22_OneReplyPerRequest ==
    (lastEvent.op = "unhook" /\ lastEvent.preParser.kind = "DECRQSS") =>
        /\ Len(NewCalls) = 1
        /\ lastEvent.preParser.data_ \in StatusStrings =>
               NewCalls = <<Call("requestStatusString", lastEvent.preParser.data_)>>

----------------------------------------------------------------------------
(* The reply to the query of one palette entry. *)

\* The payload of the OSC 4 dispatched last is "i;?": the index i, else -1.
QueriedIndex ==
    LET pieces == Split(lastEvent.handled.intermediateCharacters, 59)
    IN  IF /\ lastEvent.op = "dispatchOSC"
           /\ lastEvent.handled.parameters = <<<<4>>>>
           /\ Len(pieces) = 2
           /\ pieces[2] = <<63>>
        THEN to_integer(pieces[1])
        ELSE -1

\* C23: OSC 4 ; i ; ? with i in 0..255 sends exactly the one reply
\* ESC ] 4 ; i ; rgb:RRRR/GGGG/BBBB ESC \, each component the four hexadecimal
\* digits of c * 257 for the component c of palette entry i; with i above 255 it
\* is Invalid and sends nothing.
C23_ColorQueryReply ==
    /\ QueriedIndex \in 0..255 =>
           LET color == PaletteColor(lastEvent.prePalette, QueriedIndex)
           IN  /\ NewCalls =
                      <<Call("reply",
                             <<27, 93, 52, 59>> \o Decimal(QueriedIndex)
                                 \o Bytes(<<";", "r", "g", "b", ":">>)
                                 \o Hex4(color.red * 257) \o <<47>>
                                 \o Hex4(color.green * 257) \o <<47>>
                                 \o Hex4(color.blue * 257) \o <<27, 92>>)>>
               /\ lastEvent.result = Ok
    /\ QueriedIndex > 255 => NewCalls = <<>> /\ lastEvent.result = Invalid

\* Entry 1, set to #12abFf by the command before, was queried and answered with
\* rgb:1212/abab/ffff.
C23_Witness ==
    /\ QueriedIndex = 1
    /\ lastEvent.prePalette = (1 :> RGBColor(18, 171, 255))
    /\ NewCalls = <<Call("reply", <<27, 93>> \o Bytes(<<"4", ";", "1", ";", "r", "g", "b", ":", "1", "2", "1", "2", "/", "a", "b", "a", "b", "/", "f", "f", "f", "f">>) \o <<27, 92>>)>>

----------------------------------------------------------------------------
(* The sixel cursor, the raster and the colour registers. *)

\* The byte was passed to the sixel parser by the last event.
SixelPassed(byte) ==
    /\ lastEvent.op = "put"
    /\ lastEvent.byte = byte
    /\ lastEvent.preParser.kind = "DECSIXEL"

\* C24: in whatever state of the sixel parser the byte arrives, '$' sets
\* the column of the sixel cursor to 0 and leaves its row, and '-' sets the column
\* to 0 and advances the row by 6.
C24_RewindAndNewline ==
    /\ SixelPassed(36) =>
           sixelImageBuilder_.sixelCursor
               = [line |-> lastEvent.preBuilder.sixelCursor.line, column |-> 0]
    /\ SixelPassed(45) =>
           sixelImageBuilder_.sixelCursor
               = [line |-> lastEvent.preBuilder.sixelCursor.line + 6, column |-> 0]

\* The last event passed to the sixel parser the byte that ends a raster-attributes
\* token of four parameters.
RasterTokenEnded ==
    /\ lastEvent.op = "put"
    /\ lastEvent.preParser.kind = "DECSIXEL"
    /\ lastEvent.preParser.state_ = "RasterSettings"
    /\ Len(lastEvent.preParser.params_) = 4
    /\ ~isdigit(lastEvent.byte)
    /\ lastEvent.byte # 59

\* The pixel (line, column) of the image under construction, as <<r, g, b, a>>.
PixelAt(line, column) ==
    SubSeq(sixelImageBuilder_.buffer,
           (line * sixelImageBuilder_.size.width + column) * 4 + 1,
           (line * sixelImageBuilder_.size.width + column) * 4 + 4)

\* C25: after a raster-attributes token " Pan ; Pad ; Ph ; Pv the image is
\* min(Ph, maximum width) wide and min(Pv, maximum height) high, no larger than the
\* maximum, its buffer holds that many pixels, and a sixel that follows the token
\* is drawn into it: its pixels within the image have the current colour, and the
\* cursor is one column on.
C25_RasterClamped ==
    /\ sixelImageBuilder_.kind = "Builder" =>
           /\ sixelImageBuilder_.size.width <= MaxImageWidth
           /\ sixelImageBuilder_.size.height <= MaxImageHeight
    /\ RasterTokenEnded =>
           LET params == lastEvent.preParser.params_
               cursor == lastEvent.preBuilder.sixelCursor
               size == sixelImageBuilder_.size
               color == PaletteAt(sixelImageBuilder_.colors,
                                  sixelImageBuilder_.currentColor)
           IN  /\ size = [width |-> Min(params[3], MaxImageWidth),
                          height |-> Min(params[4], MaxImageHeight)]
               /\ Len(sixelImageBuilder_.buffer) = size.width * size.height * 4
               /\ (isSixel(lastEvent.byte) /\ cursor.column < size.width) =>
                      /\ sixelImageBuilder_.sixelCursor
                             = [line |-> cursor.line, column |-> cursor.column + 1]
                      /\ \A i \in 0..5 :
                             (/\ cursor.line + i < size.height
                              /\ ((lastEvent.byte - 63) \div (2 ^ i)) % 2 = 1) =>
                                 PixelAt(cursor.line + i, cursor.column)
                                     = color \o <<255>>

\* The raster attributes "1;1;9;9, larger than the maximum, were followed by the
\* sixel '~', which was drawn into an image of the maximum size.
C25_Witness ==
    /\ RasterTokenEnded
    /\ lastEvent.byte = 126
    /\ lastEvent.preParser.params_ = <<1, 1, 9, 9>>
    /\ sixelImageBuilder_.size = [width |-> MaxImageWidth, height |-> MaxImageHeight]
    /\ sixelImageBuilder_.sixelCursor.column = 1
    /\ PixelAt(5, 0)[4] = 255

\* C26: for a raster of W x H pixels, H at most 6, within the maximum size, the
\* picture that defines register 0 as RGB 100%, 0%, 0%, selects it and repeats the
\* sixel '~' W times gives on finalize exactly one image, of W x H pixels, each of
\* them opaque red; and a repeat ! N followed by a sixel draws the sixel in the N
\* columns from the cursor on that the image has.
C26_RepeatFillsRaster ==
    /\ \A width \in 1..MaxImageWidth, height \in 1..Min(6, MaxImageHeight) :
           (lastEvent.op = "unhook" /\ dcs.bytes = RedRaster(width, height)) =>
               NewCalls = <<Call("sixelImage",
                                 <<width, height>>
                                     \o [k \in 1..(width * height * 4) |->
                                            <<255, 0, 0, 255>>[((k - 1) % 4) + 1]])>>
    /\ (/\ lastEvent.op = "put"
        /\ lastEvent.preParser.kind = "DECSIXEL"
        /\ lastEvent.preParser.state_ = "RepeatIntroducer"
        /\ isSixel(lastEvent.byte)) =>
           LET cursor == lastEvent.preBuilder.sixelCursor
               size == sixelImageBuilder_.size
               drawn == Min(lastEvent.preParser.params_[1],
                            Max(0, size.width - cursor.column))
               color == PaletteAt(sixelImageBuilder_.colors,
                                  sixelImageBuilder_.currentColor)
           IN  /\ sixelImageBuilder_.sixelCursor
                      = [line |-> cursor.line, column |-> cursor.column + drawn]
               /\ \A column \in cursor.column..(cursor.column + drawn - 1), i \in 0..5 :
                      (/\ cursor.line + i < size.height
                       /\ ((lastEvent.byte - 63) \div (2 ^ i)) % 2 = 1) =>
                          PixelAt(cursor.line + i, column) = color \o <<255>>

\* The red picture of 3 x 2 pixels was finalized into its image.
C26_Witness ==
    /\ lastEvent.op = "unhook"
    /\ dcs.bytes = RedRaster(3, 2)
    /\ Len(NewCalls) = 1
    /\ NewCalls[1].args = <<3, 2, 255, 0, 0, 255, 255, 0, 0, 255, 255, 0, 0, 255, 255, 0, 0, 255, 255, 0, 0, 255, 255, 0, 0, 255>>

\* C27: a colour definition # Pc ; Pu ; Px ; Py ; Pz sets register Pc from Px, Py
\* and Pz, each taken from the range 0..100 to the range 0..255, whatever the
\* colour space Pu is: HSL (Pu other than 2) is converted as RGB (Pu = 2) is.
C27_HSLConvertedAsRGB ==
    (/\ lastEvent.op = "put"
     /\ lastEvent.preParser.kind = "DECSIXEL"
     /\ lastEvent.preParser.state_ = "ColorParam"
     /\ Len(lastEvent.preParser.params_) = 5
     /\ ~isdigit(lastEvent.byte)
     /\ lastEvent.byte # 59
     /\ lastEvent.preParser.params_[1] < MaxImageRegisterCount) =>
        LET params == lastEvent.preParser.params_
            component(value) == ((value * 255) \div 100) % 256
        IN  sixelImageBuilder_.colors.palette[params[1] + 1]
                = <<component(params[3]), component(params[4]), component(params[5])>>

\* Every pixel that render has written was a pixel of a row below the height and
\* a column below the width of the image at that time, stored in the four bytes
\* from offset (row * width + column) * 4 on, inside the buffer.
WrittenInsideBuffer ==
    \A w \in sixelImageBuilder_.written :
        /\ w.line >= 0 /\ w.line < w.size.height
        /\ w.column >= 0 /\ w.column < w.size.width
        /\ w.base = (w.line * w.size.width + w.column) * 4
        /\ w.base + 3 < w.length
        /\ w.length = w.size.width * w.size.height * 4

----------------------------------------------------------------------------
(* DECERA, DECFRA and REP: the final byte of a control sequence arrives, its      *)
(* parameters and intermediate characters already collected; before a REP a       *)
(* character may have been printed.                                               *)

\* The screens with the largest page, the cursor in any column of its first line.
ApplyScreens ==
    {[screen EXCEPT !.cursor.position.column = column] :
        screen \in {s \in CoordScreens : s.pageSize = NewScreen(MaxPageLines, MaxPageColumns).pageSize},
        column \in 0..MaxPageColumns - 1}

\* Parameter lists of the given length; a parameter is absent (0), small or
\* larger than the page.
ParameterLists(length) ==
    {[i \in 1..length |-> <<values[i]>>] : values \in [1..length -> {0, 2, MaxPageLines + 5}]}

\* CSI Pn b; CSI Pt ; Pl ; Pb ; Pr $ z; CSI Pch ; Pt ; Pl ; Pb ; Pr $ x; CSI Ps g;
\* CSI Pn $ |; CSI Pn * |.
ApplyInputs ==
    [parameters : ParameterLists(1), intermediateCharacters : {<<>>}, final : {98}]
        \cup [parameters : {<<>>, << <<0>> >>, << <<3>> >>, << <<2>> >>, << <<5>> >>},
              intermediateCharacters : {<<>>}, final : {103}]
        \cup [parameters : {<<>>, << <<0>> >>, << <<80>> >>, << <<132>> >>, << <<2>> >>,
                            << <<100>> >>},
              intermediateCharacters : {<<36>>}, final : {124}]
        \cup [parameters : {<< <<2>> >>, << <<MaxPageLines>> >>, << <<24>> >>},
              intermediateCharacters : {<<42>>}, final : {124}]
        \cup [parameters : ParameterLists(0) \cup ParameterLists(4),
              intermediateCharacters : {<<36>>}, final : {122}]
        \cup [parameters : ParameterLists(0) \cup ParameterLists(5),
              intermediateCharacters : {<<36>>}, final : {120}]

InitApply ==
    /\ screenState \in ApplyScreens
    /\ InitSequencer
    /\ textureAtlas = NoAtlas
    /\ usePrivateColorRegisters = FALSE
    /\ sent \in ApplyInputs
    /\ sent.final # 98 => screenState.cursor.position.column = 0
    /\ sequence_ = [EmptySequence EXCEPT
                        !.parameters = sent.parameters,
                        !.intermediateCharacters = sent.intermediateCharacters]

NextApply ==
    \/ /\ lastEvent.op = "none" /\ sent.final = 98
       /\ UNCHANGED pty
       /\ OnPrint(65)
    \/ /\ sequence_.category = CategoryC0
       /\ UNCHANGED pty
       /\ OnDispatchCSI(sent.final)

SpecApply == InitApply /\ [][NextApply]_vars

\* The value of parameter k (from 1) of the sequence, the default when it was
\* omitted.
SentOr(k, defaultValue) ==
    IF k <= Len(sent.parameters) /\ sent.parameters[k][1] # 0
    THEN sent.parameters[k][1]
    ELSE defaultValue

\* The rectangle that the parameters from the given one on select, as DECERA reads
\* it: top and left default to the origin, bottom and right to the page size, which
\* bounds them; all are counted from 0.
SentRectangle(first) ==
    LET margin == screenState.margin
        relative == screenState.cursor.originMode
        size == screenState.pageSize
    IN  <<SentOr(first, (IF relative THEN margin.vertical.from ELSE 0) + 1) - 1,
          SentOr(first + 1, (IF relative THEN margin.horizontal.from ELSE 0) + 1) - 1,
          Min(SentOr(first + 2, size.lines), size.lines) - 1,
          Min(SentOr(first + 3, size.columns), size.columns) - 1>>

\* C28: DECFRA (CSI Pch ; Pt ; Pl ; Pb ; Pr $ x) calls fillArea with parameter 0 as
\* the character and with the rectangle of parameters 1 to 4, read as DECERA reads
\* its parameters 0 to 3: counted from 0, top and left defaulting to the origin,
\* bottom and right to the page size and bounded by it.
C28_FillAreaLikeEraseArea ==
    /\ (lastEvent.op = "dispatchCSI" /\ lastEvent.byte = 122) =>
           NewCalls = <<Call("eraseArea", SentRectangle(1))>>
    /\ (lastEvent.op = "dispatchCSI" /\ lastEvent.byte = 120) =>
           NewCalls = <<Call("fillArea", <<SentOr(1, 0)>> \o SentRectangle(2))>>

\* C29: REP writes the preceding graphic character min(Pn, right margin - cursor
\* column) times, no time when that is not positive or when no graphic character
\* was printed: never more than Pn times and never past the right margin.
C29_RepeatWithinMargin ==
    (lastEvent.op = "dispatchCSI" /\ lastEvent.byte = 98) =>
        LET Pn == sent.parameters[1][1]
            columns == screenState.margin.horizontal.to
                           - screenState.cursor.position.column
        IN  /\ Len(NewCalls) <= Pn
            /\ Len(NewCalls) <= Max(0, columns)
            /\ \A i \in 1..Len(NewCalls) : NewCalls[i] = Call("writeText", <<65>>)
            /\ lastEvent.preOut = 0 => NewCalls = <<>>

----------------------------------------------------------------------------
(* DECSNLS, DECSCPP and TBC. *)

\* The last event dispatched the sequence drawn, with the given intermediate
\* characters and final byte.
Dispatched(intermediates, final) ==
    /\ lastEvent.op = "dispatchCSI"
    /\ sent.intermediateCharacters = intermediates
    /\ sent.final = final

\* C33: DECSNLS (CSI Pn * |) changes the line count of the page to Pn and nothing
\* else: it resizes the page to Pn lines and the columns the page has.
C33_LinesPerScreen ==
    Dispatched(<<42>>, 124) =>
        NewCalls = <<Call("resize", <<sent.parameters[1][1],
                                      lastEvent.preScreen.pageSize.columns>>)>>

\* C36: TBC (CSI Ps g) with Ps = 0 or without a parameter clears all tab stops,
\* with Ps = 3 it clears the tab stop under the cursor, and any other Ps is
\* Invalid and clears none.
C36_TabClear ==
    Dispatched(<<>>, 103) =>
        LET Ps == SentOr(1, 0)
        IN  IF Ps = 0
            THEN /\ NewCalls = <<Call("horizontalTabClear", <<AllTabs>>)>>
                 /\ lastEvent.result = Ok
            ELSE IF Ps = 3
            THEN /\ NewCalls = <<Call("horizontalTabClear", <<UnderCursor>>)>>
                 /\ lastEvent.result = Ok
            ELSE /\ NewCalls = <<>>
                 /\ lastEvent.result = Invalid

\* C37: DECSCPP (CSI Pn $ |) resizes the page to Pn columns without clearing and
\* is Ok for every Pn from 1 on, not for 80 and 132 only; an omitted Pn is 80.
C37_AnyColumnCount ==
    Dispatched(<<36>>, 124) =>
        /\ NewCalls = <<Call("resizeColumns", <<SentOr(1, 80), 0>>)>>
        /\ lastEvent.result = Ok

----------------------------------------------------------------------------
(* OSC 4 with several pairs. *)

\* The pieces of the data of the OSC 4 dispatched last, and its pairs of an index
\* and a spec.
PaletteData == Split(OscData, 59)

PalettePairs ==
    [j \in 1..(Len(PaletteData) \div 2) |->
        [index |-> PaletteData[2 * j - 1], spec |-> PaletteData[2 * j]]]

\* A pair is well formed when its index is a number up to 255 and its spec is '?'
\* or a colour.
WellFormedPair(pair) ==
    /\ to_integer(pair.index) \in 0..255
    /\ pair.spec = <<63>> \/ parseColor(pair.spec).ok

\* The number of pairs before the first malformed one.
PairsApplied ==
    CHOOSE k \in 0..Len(PalettePairs) :
        /\ \A j \in 1..k : WellFormedPair(PalettePairs[j])
        /\ k < Len(PalettePairs) => ~WellFormedPair(PalettePairs[k + 1])

\* The colour of a palette entry after the first k pairs.
ColorAfterPairs(k, index) ==
    LET setting(j) == /\ PalettePairs[j].spec # <<63>>
                      /\ to_integer(PalettePairs[j].index) = index
        settings == {j \in 1..k : setting(j)}
        last == CHOOSE j \in settings : \A m \in settings : m <= j
    IN  IF settings = {} THEN PaletteColor(lastEvent.prePalette, index)
        ELSE parseColor(PalettePairs[last].spec).color

\* The palette entries that have been set, now or before, and those the pairs
\* name: every other entry has its default colour, before and after.
PaletteIndexes ==
    (DOMAIN colorPalette) \cup (DOMAIN lastEvent.prePalette)
        \cup ({to_integer(PalettePairs[j].index) : j \in 1..Len(PalettePairs)}
                  \cap 0..255)

\* An OSC 4 made of whole pairs was dispatched.
PairsDispatched ==
    /\ lastEvent.op = "dispatchOSC"
    /\ OscCode = 4
    /\ Len(PaletteData) > 0
    /\ Len(PaletteData) % 2 = 0

\* C34: an OSC 4 of several pairs index ; spec is applied left to right up to its
\* first malformed pair: each pair before it sets its palette entry or is answered
\* with the colour its entry has by then, the pairs from the malformed one on do
\* nothing, and the result is Invalid; when every pair is well formed all are
\* applied and the result is Ok.
C34_PairsUpToFirstMalformed ==
    PairsDispatched =>
        LET isQuery(j) == PalettePairs[j].spec = <<63>>
            queries == SelectSeq([j \in 1..PairsApplied |-> j], isQuery)
        IN  /\ lastEvent.result = IF PairsApplied = Len(PalettePairs) THEN Ok ELSE Invalid
            /\ NewCalls =
                   [q \in 1..Len(queries) |->
                       ColorReply(to_integer(PalettePairs[queries[q]].index),
                                  ColorAfterPairs(queries[q] - 1,
                                      to_integer(PalettePairs[queries[q]].index)))]
            /\ \A index \in PaletteIndexes :
                   PaletteColor(colorPalette, index) = ColorAfterPairs(PairsApplied, index)

\* The payload 4;1;#fff;2;x;3;? was dispatched: entry 1 was set, the malformed pair
\* 2;x made the result Invalid, and the query of entry 3 was not answered.
C34_Witness ==
    /\ PairsDispatched
    /\ Len(PalettePairs) = 3
    /\ PairsApplied = 1
    /\ PalettePairs[3].spec = <<63>>
    /\ lastEvent.result = Invalid
    /\ NewCalls = <<>>
    /\ PaletteColor(colorPalette, 1) = RGBColor(240, 240, 240)
    /\ PaletteColor(lastEvent.prePalette, 1) # RGBColor(240, 240, 240)

----------------------------------------------------------------------------
(* Operating system commands with a long code: the payload, one putOSC for each   *)
(* of its bytes, and the dispatchOSC at the string terminator, which may arrive   *)
(* after any byte.                                                                *)

\* 123; the largest int and the number above it; 2^32 + 1 and 2^32 + 4; eleven
\* digits.
CodeStreams ==
    { Bytes(<<"1", "2", "3">>),
      Bytes(<<"2", "1", "4", "7", "4", "8", "3", "6", "4", "7", ";", "x">>),
      Bytes(<<"2", "1", "4", "7", "4", "8", "3", "6", "4", "8">>),
      Bytes(<<"4", "2", "9", "4", "9", "6", "7", "2", "9", "7">>),
      Bytes(<<"4", "2", "9", "4", "9", "6", "7", "3", "0", "0", ";", "1", ";", "?">>),
      Bytes(<<"9", "9", "9", "9", "9", "9", "9", "9", "9", "9", "9">>) }

NextCode ==
    \/ /\ pty = <<>> /\ sequence_.category # "OSC" /\ instructionCounter < MaxOscStrings
       /\ OnClear
       /\ \E stream \in CodeStreams : pty' = stream
    \/ /\ pty # <<>> /\ sequence_.category # "OSC"
       /\ OnStartOSC
       /\ UNCHANGED pty
    \/ /\ pty # <<>> /\ sequence_.category = "OSC"
       /\ OnPutOSC(Head(pty))
       /\ pty' = Tail(pty)
    \/ /\ sequence_.category = "OSC"
       /\ OnDispatchOSC
       /\ pty' = <<>>

SpecCode == Init /\ [][NextCode]_vars

\* The digits that the payload dispatched last starts with.
CodeDigits ==
    LET n == CHOOSE k \in 0..Len(OscPayload) :
                 /\ \A i \in 1..k : isdigit(OscPayload[i])
                 /\ k = Len(OscPayload) \/ ~isdigit(OscPayload[k + 1])
    IN  SubSeq(OscPayload, 1, n)

\* C35: the digits of an OSC code accumulate to their decimal value: however many
\* digits there are, the code does not wrap around to a smaller or a negative
\* number, so that the code of a long string of digits is at least the number
\* that any shorter beginning of it writes (the beginnings of up to nine digits
\* are compared), and the code of up to nine digits is the number they write.
C35_CodeNeverWraps ==
    (lastEvent.op = "dispatchOSC" /\ CodeDigits # <<>>) =>
        /\ OscCode >= 0
        /\ \A n \in 1..Min(Len(CodeDigits), 9) :
               OscCode >= to_integer(SubSeq(CodeDigits, 1, n))
        /\ Len(CodeDigits) <= 9 => OscCode = to_integer(CodeDigits)

-----------------------------------------------------------------------------
(* terminal::renderer::atlas::TextureAtlas: the tiles of one atlas texture, the
   tiles of the least recently used keys making room for new ones. *)

\* The largest number of calls made on one atlas.
MaxAtlasCalls == 4

\* The keys (crispy::StrongHash) that tiles are asked for.
MaxKeys == 3

\* The largest number of reserved tile slots.
MaxReservedTileCount == 2

ImageSize(width, height) == [width |-> width, height |-> height]

\* AtlasProperties, of their fields the three that decide the tile slots: tiles
\* of 2 by 2 pixels in images that hold 2, 3 and 4 of them.
AtlasInputs ==
    {[imageSize |-> imageSize, tileSize |-> ImageSize(2, 2),
      reservedTileCount |-> reservedTileCount] :
        imageSize \in {ImageSize(4, 2), ImageSize(6, 3), ImageSize(4, 5)},
        reservedTileCount \in 0..MaxReservedTileCount}

\* The number of entries needed to store all atlas tiles.
computeAtlasCapacity(atlas) ==
    LET dim == ImageSize(atlas.imageSize.width \div atlas.tileSize.width,
                         atlas.imageSize.height \div atlas.tileSize.height)
    IN  dim.width * dim.height

\* The constructor: the backend creates the atlas texture, the tile cache is made
\* for as many entries as the atlas has tiles and there are reservedTileCount
\* reserved tiles, none of them filled (0; 1 once emplace_reserved filled it).
\* The cache is crispy::StrongLRUHashtable: its entries are kept from the most to
\* the least recently used one, each with the index of its slot, and the slots
\* are numbered from firstEntryIndex on.
TextureAtlas(atlasProperties, firstEntryIndex) ==
    [kind |-> "TextureAtlas",
     atlasProperties |-> atlasProperties,
     backend |-> <<[op |-> "createAtlas", size |-> atlasProperties.imageSize]>>,
     tileCache |-> [capacity |-> computeAtlasCapacity(atlasProperties),
                    firstEntryIndex |-> firstEntryIndex,
                    entries |-> <<>>],
     reservedTiles |-> [i \in 1..atlasProperties.reservedTileCount |-> 0]]

\* crispy::StrongLRUHashtable looks a key up: the entry of the key is a hit and
\* becomes the most recently used one. A key without an entry gets the next slot
\* never used, or with every slot in use the slot of the least recently used
\* entry, which is evicted; entries are the entries that stay, the entry of a hit
\* first.
TileCacheLookup(tileCache, key) ==
    LET entries == tileCache.entries
        hits == {i \in 1..Len(entries) : entries[i].key = key}
        at == CHOOSE i \in hits : TRUE
    IN  IF hits # {}
        THEN [hit |-> TRUE, entryIndex |-> entries[at].entryIndex,
              entries |-> <<entries[at]>> \o SubSeq(entries, 1, at - 1)
                              \o SubSeq(entries, at + 1, Len(entries))]
        ELSE IF Len(entries) < tileCache.capacity
        THEN [hit |-> FALSE, entryIndex |-> tileCache.firstEntryIndex + Len(entries),
              entries |-> entries]
        ELSE [hit |-> FALSE, entryIndex |-> entries[Len(entries)].entryIndex,
              entries |-> SubSeq(entries, 1, Len(entries) - 1)]

\* constructTile with a creator that makes the tile: the tile of the cache entry
\* entryIndex lies behind the reserved tiles, and the backend uploads it.
constructTile(atlas, entryIndex) ==
    [tileID |-> entryIndex + atlas.atlasProperties.reservedTileCount,
     reserved |-> FALSE,
     atlasProperties |-> atlas.atlasProperties]

UploadTile(tile) == [op |-> "uploadTile"] @@ tile

\* get_or_emplace(key, createTileData): the entry of the key becomes the most
\* recently used one; a key without an entry gets one, whose tile is constructed.
get_or_emplace(atlas, key) ==
    LET found == TileCacheLookup(atlas.tileCache, key)
        tile == constructTile(atlas, found.entryIndex)
    IN  IF found.hit
        THEN [atlas EXCEPT !.tileCache.entries = found.entries]
        ELSE [atlas EXCEPT
                 !.tileCache.entries =
                     <<[key |-> key, entryIndex |-> found.entryIndex,
                        tileID |-> tile.tileID]>> \o found.entries,
                 !.backend = Append(@, UploadTile(tile))]

\* emplace_reserved(tileID, tileCreateData), which requires the tile to be one of
\* the reserved ones.
emplace_reserved(atlas, tileID) ==
    [atlas EXCEPT
        !.reservedTiles[tileID + 1] = 1,
        !.backend = Append(@, UploadTile([tileID |-> tileID, reserved |-> TRUE,
                                          atlasProperties |-> atlas.atlasProperties]))]

\* reset(atlasProperties): the atlas texture is made anew when its size changes,
\* the properties are replaced and the tile cache is cleared; the cache keeps its
\* capacity and the reserved tiles stay as they are.
reset(atlas, atlasProperties) ==
    LET needsRecreate == atlas.atlasProperties.imageSize # atlasProperties.imageSize
    IN  [atlas EXCEPT
            !.atlasProperties = atlasProperties,
            !.tileCache.entries = <<>>,
            !.backend = IF needsRecreate
                        THEN @ \o <<[op |-> "destroyAtlas"],
                                    [op |-> "createAtlas",
                                     size |-> atlasProperties.imageSize]>>
                        ELSE @]

\* An atlas is constructed with any of the properties; the tile cache numbers its
\* slots from 0 or from 1.
InitAtlas ==
    /\ screenState = NewScreen(MaxPageLines, MaxPageColumns)
    /\ sequence_ = EmptySequence
    /\ InitSequencer
    /\ usePrivateColorRegisters = FALSE
    /\ sent = <<>>
    /\ \E atlasProperties \in AtlasInputs, firstEntryIndex \in {0, 1} :
           textureAtlas = TextureAtlas(atlasProperties, firstEntryIndex)

AtlasCalled(atlas) ==
    /\ steps < MaxAtlasCalls
    /\ textureAtlas' = atlas
    /\ steps' = steps + 1
    /\ UNCHANGED <<sequence_, utf8DecoderState, instructionCounter,
                   precedingGraphicCharacter, colorPalette, screenState, out, pty,
                   lastEvent, sent, printed, dcsVars>>

NextAtlas ==
    \/ \E key \in 1..MaxKeys : AtlasCalled(get_or_emplace(textureAtlas, key))
    \/ \E tileID \in 0..MaxReservedTileCount :
           /\ tileID < Len(textureAtlas.reservedTiles)
           /\ AtlasCalled(emplace_reserved(textureAtlas, tileID))
    \/ \E atlasProperties \in AtlasInputs :
           AtlasCalled(reset(textureAtlas, atlasProperties))

SpecAtlas == InitAtlas /\ [][NextAtlas]_vars

\* The tiles that the backend was told to upload.
UploadedTiles ==
    {textureAtlas.backend[i] : i \in
        {j \in 1..Len(textureAtlas.backend) : textureAtlas.backend[j].op = "uploadTile"}}

\* C38: every tile that the atlas uploads fits into the atlas as it is at the
\* time: its tile ID is below computeAtlasCapacity of the atlas properties, the
\* tile of a cache entry is not in one of the reservedTileCount slots before it,
\* a reserved tile is in one of them, and at no time does a cache entry hold the
\* slot of a reserved tile that was filled.
C38_TileIdsBelowCapacity ==
    textureAtlas.kind = "TextureAtlas" =>
        /\ \A tile \in UploadedTiles :
               /\ tile.tileID < computeAtlasCapacity(tile.atlasProperties)
               /\ tile.reserved <=> tile.tileID < tile.atlasProperties.reservedTileCount
        /\ \A i \in 1..Len(textureAtlas.tileCache.entries) :
               LET tileID == textureAtlas.tileCache.entries[i].tileID
               IN  ~(/\ tileID < Len(textureAtlas.reservedTiles)
                     /\ textureAtlas.reservedTiles[tileID + 1] = 1)

====
